---- MODULE Spec2Model ----
(***************************************************************************)
(* The streaming voice client of mikegcoleman/pirate (src/stt/client.py,   *)
(* src/stt/filler_player.py, src/stt/ambient_player.py): the conversation   *)
(* loop starts turns; each turn (send_streaming_request) creates its own    *)
(* FillerPlayer and StreamingAudioPlayer, reads the event stream and feeds  *)
(* the playback queue; the filler worker, the chunk playback worker and the *)
(* ambient loop are threads that run audio player processes on one sink.    *)
(* Time is not measured: a sleep, a poll interval and a join timeout are    *)
(* points at which the other threads may take any number of steps.          *)
(***************************************************************************)
EXTENDS Naturals, Sequences, FiniteSets, TLC

\* ---------------------------------------------------------------- bounds
MaxTurns == 2      \* turns of the conversation loop (ConversationSpec)
MaxLines == 3      \* non-terminal stream lines read over the whole run
MaxChunkId == 2    \* chunk_id values a stream event may carry
MaxSentences == 3  \* sentences the segmenter yields for one reply
MaxStarts == 3     \* filler worker threads started in one run
MaxTracks == 2     \* filler_*.mp3 files in the filler directory
MaxUtterances == 4 \* utterances transcribed in the conversation loop of client.py
MaxCalls == 7      \* calls of get_llm_response (combined/main.py)
MaxTextLen == 5    \* characters of a reply text given to the segmenter

\* ------------------------------------------------------ program constants
POST_FILLER_DELAY == 5   \* the default "0.5" s, in tenths of a second
HISTORY_WINDOW == 10     \* combined/main.py keeps the system entry + 10 messages
QUEUE_MAXSIZE == 0       \* queue.Queue(): maxsize 0, no upper limit

VARIABLES
    ambient,           \* AmbientPlayer: "off" | "playing" | "gap"
    turn,              \* number of send_streaming_request calls started
    pc,                \* where the coroutine of the current turn stands
    exc,               \* exception caught in this turn: "none" | kind
    pending,           \* the audio_chunk event being handled while awaiting
    first_chunk_time,  \* "None" | "set"
    received_chunks,   \* received_chunks of the current turn
    total_chunks,      \* total_chunks of the current turn
    linesRead,         \* non-terminal lines read so far (bounded by MaxLines)
    complete_seen,     \* the current turn has handled a complete event
    filler,            \* per turn: the FillerPlayer of that request
    player,            \* per turn: the StreamingAudioPlayer of that request
    lastPut,           \* per turn: arrival number of the chunk last put on the queue
    lastGot,           \* per turn: the chunk the worker took off the queue last
    hist,              \* current turn, in order: "early" | "late" (first chunk
                       \* arrives while the filler plays | after), "obs" (filler
                       \* seen not playing), "pause", "enq", "drop", "cerr"
    response_data      \* main: what the last call returned; kind "none" (no call
                       \* yet) | "dict" | "None"

\* the chunk sequencer of the server, one request (spec 4.3)
VARIABLES
    seqState,          \* "Idle" | "AwaitingText" | "Draining" | "Complete" | "Failed"
    backend,           \* the text backend: "idle" | "open" | "ended" | "failed"
    next_chunk_id,     \* the chunk_id the next emitted sentence event gets
    synth,             \* per sentence, in segmentation order: "running" | "ok" | "failed"
    doneOrder,         \* sentences in the order their synthesis completed
    events             \* the StreamEvents emitted so far, in emission order

\* the sentence segmenter and its caller, one reply (spec 4.1, 4.3)
VARIABLES
    segPc,             \* "idle" | "feeding" (text arrives) | "done" (flushed)
    reply,             \* the whole reply text of the backend
    fed,               \* characters of reply received so far
    buffer,            \* the remainder carried over to the next update
    sentences,         \* the sentences produced so far, in order
    segCall,           \* the last call of segment: its buffer, how much of it
                       \* was carried over, and its result
    flushes            \* number of end-of-stream flushes that produced a sentence

\* llm-api: one request to /api/chat (src/llm-api/app.py)
VARIABLES
    apiPc,             \* "idle" | "validate" | "call_llm" | "tts_primary" |
                       \* "tts_fallback" | "respond" | "done"
    apiIn,             \* what the request meets: the request body, the outcome of
                       \* the backend call, the primary provider, the fallback audio
    response_text,     \* chat_api: "unset" | "text" | "blank"
    tts,               \* generate_sentence_audio: calls made and its outcome
    apiResp            \* the response of chat_api

\* a FillerPlayer with its callers and worker threads (src/stt/filler_player.py)
VARIABLES
    filler_files,      \* number of tracks found in the filler directory
    fp,                \* the FillerPlayer object in use
    workers,           \* the worker threads started so far
    caller,            \* the thread that calls start_filler / stop_filler
    tracks             \* the two tracks whose playback was started last

\* the conversation histories (src/stt/client.py main, src/combined/main.py)
VARIABLES
    messages,            \* client.py main: the history sent with each request
    conversation_start,  \* client.py main: "None" | "set"
    deadline_passed,     \* time.time() >= conversation_deadline
    loopPc,              \* client.py main loop: "listen" | "request" | "exit"
    utterances,          \* utterances transcribed so far
    overdue,             \* a turn of this conversation has ended past the deadline
    self_messages,       \* CombinedPirateAssistant.messages
    llm_calls            \* calls of get_llm_response so far

\* request-ID propagation (src/stt/logger_utils.py)
VARIABLES
    request_id_context,  \* _request_id_context: "None" or an ID
    headers,             \* the headers dict handed to add_request_id_header
    latest_set,          \* what was set last: "never" | "cleared" | an ID
    reqCall              \* the last call: its arguments and return value

\* streaming_client.py: its main loop, request task, player and filler
VARIABLES
    sc_main,        \* main: "listen" | "sleep" | "filler" | "await"
    request_task,   \* send_streaming_request: "none" | "connect" | "read" |
                    \* "wait_completion" | "stop_join" | "done"
    sc_player,      \* the StreamingAudioPlayer of the request
    sc_filler,      \* play_filler_phrase in the executor: "none" | "playing" | "done"
    sc_received     \* audio_chunk events handled

clientVars == <<ambient, turn, pc, exc, pending, first_chunk_time, received_chunks,
                total_chunks, linesRead, complete_seen, filler, player, lastPut,
                lastGot, hist, response_data>>
seqVars == <<seqState, backend, next_chunk_id, synth, doneOrder, events>>

segVars == <<segPc, reply, fed, buffer, sentences, segCall, flushes>>

apiVars == <<apiPc, apiIn, response_text, tts, apiResp>>

fpVars == <<filler_files, fp, workers, caller, tracks>>

histVars == <<messages, conversation_start, deadline_passed, loopPc, utterances,
              overdue, self_messages, llm_calls>>

ridVars == <<request_id_context, headers, latest_set, reqCall>>

scVars == <<sc_main, request_task, sc_player, sc_filler, sc_received>>

vars == <<clientVars, seqVars, segVars, apiVars, fpVars, histVars, ridVars, scVars>>

\* what an action of one component leaves alone
notClient == <<seqVars, segVars, apiVars, fpVars, histVars, ridVars, scVars>>
notSeq == <<clientVars, segVars, apiVars, fpVars, histVars, ridVars, scVars>>
notSeg == <<clientVars, seqVars, apiVars, fpVars, histVars, ridVars, scVars>>
notApi == <<clientVars, seqVars, segVars, fpVars, histVars, ridVars, scVars>>
notFp == <<clientVars, seqVars, segVars, apiVars, histVars, ridVars, scVars>>
notHist == <<clientVars, seqVars, segVars, apiVars, fpVars, ridVars, scVars>>
notRid == <<clientVars, seqVars, segVars, apiVars, fpVars, histVars, scVars>>
notSc == <<clientVars, seqVars, segVars, apiVars, fpVars, histVars, ridVars>>

Turns == 1..MaxTurns
ChunkIds == 1..MaxChunkId
TotalChunkHints == {1}   \* total_chunks a metadata event announces
NoChunk == [n |-> 0, id |-> 0, decodable |-> FALSE]
NoGot == [n |-> 0, id |-> 0]

\* ------------------------------------------------------------ FillerPlayer
\* thread: "none" | "select" (started, before Popen) | "poll" | "dead"
\* proc:   "none" | "running" | "exited" | "terminated"
NoFiller ==
    [exists |-> FALSE, is_playing |-> FALSE, stop_event |-> FALSE,
     thread |-> "none", proc |-> "none"]

FillerPlayer_init == [NoFiller EXCEPT !.exists = TRUE]

start_filler(f) ==
    IF f.is_playing
    THEN f
    ELSE [f EXCEPT !.stop_event = FALSE, !.is_playing = TRUE, !.thread = "select"]

is_filler_playing(t) ==
    filler[t].is_playing /\ filler[t].thread \in {"select", "poll"}

\* `if filler_player and filler_player.is_filler_playing()` / the poll loops
FillerBusy(t) == filler[t].exists /\ is_filler_playing(t)

Released(f) == f.thread \in {"none", "dead"}

\* FillerPlayer.playback_worker up to subprocess.Popen: the worker returns
\* at once when stop_event is set, and when reading the file or launching
\* the player raises; `finally` resets is_playing.
FillerLaunch(t, launched) ==
    /\ t <= turn
    /\ filler[t].thread = "select"
    /\ filler' = [filler EXCEPT ![t] =
          IF filler[t].stop_event \/ ~launched
          THEN [@ EXCEPT !.is_playing = FALSE, !.thread = "dead"]
          ELSE [@ EXCEPT !.proc = "running", !.thread = "poll"]]
    /\ UNCHANGED <<ambient, turn, pc, exc, pending, first_chunk_time,
                   received_chunks, total_chunks, linesRead, complete_seen,
                   player, lastPut, lastGot, hist, response_data>>
    /\ UNCHANGED notClient

\* The filler's player process reaches the end of the track.
FillerProcExit(t) ==
    /\ t <= turn
    /\ filler[t].proc = "running"
    /\ filler' = [filler EXCEPT ![t].proc = "exited"]
    /\ UNCHANGED <<ambient, turn, pc, exc, pending, first_chunk_time,
                   received_chunks, total_chunks, linesRead, complete_seen,
                   player, lastPut, lastGot, hist, response_data>>
    /\ UNCHANGED notClient

\* The poll loop of _play_audio_file leaves: the process has ended, or
\* stop_event is set and the process is terminated; then `finally`.
FillerPoll(t) ==
    /\ t <= turn
    /\ filler[t].thread = "poll"
    /\ filler[t].proc = "exited" \/ filler[t].stop_event
    /\ filler' = [filler EXCEPT ![t] =
          [@ EXCEPT !.proc = IF filler[t].proc = "exited" THEN "exited" ELSE "terminated",
                    !.is_playing = FALSE,
                    !.thread = "dead"]]
    /\ UNCHANGED <<ambient, turn, pc, exc, pending, first_chunk_time,
                   received_chunks, total_chunks, linesRead, complete_seen,
                   player, lastPut, lastGot, hist, response_data>>
    /\ UNCHANGED notClient

\* ---------------------------------------------------- StreamingAudioPlayer
\* thread: "none" | "top" (at `while not stop_event.is_set()`) | "get"
\*         (in audio_queue.get) | "playing" (in subprocess.run) | "dead"
StreamingAudioPlayer_init ==
    [queue |-> <<>>, unfinished |-> 0, stop_event |-> FALSE,
     is_playing |-> FALSE, thread |-> "none", chunks_played |-> 0]

ThreadAlive(p) == p.thread \in {"top", "get", "playing"}

start_playback(p) ==
    IF ThreadAlive(p)
    THEN p
    ELSE [p EXCEPT !.is_playing = TRUE, !.stop_event = FALSE, !.thread = "top"]

\* queue.Queue.put blocks only when maxsize > 0 and the queue is full
put_ready(q) == QUEUE_MAXSIZE = 0 \/ Len(q) < QUEUE_MAXSIZE

Queue_put(p, c) == [p EXCEPT !.queue = Append(@, c), !.unfinished = @ + 1]

\* Mutant: a payload that does not decode is put on the queue all the same.
add_audio_chunk_NoDecodeCheck(p, c) == Queue_put(p, c)

\* add_audio_chunk: b64decode raising is caught inside; nothing is put.
add_audio_chunk(p, c) == IF c.decodable THEN Queue_put(p, c) ELSE p

Queue_task_done(p) == [p EXCEPT !.unfinished = @ - 1]

\* The call that made the player of turn t has returned.
Returned(t) == t < turn \/ (t = turn /\ pc = "main")

\* `while not self.stop_event.is_set()`: the loop goes on to get, or the
\* thread ends; a player whose call has returned goes with its thread.
WorkerCheckStop(t) ==
    /\ t <= turn
    /\ player[t].thread = "top"
    /\ LET gone == player[t].stop_event /\ Returned(t)
       IN /\ player' = [player EXCEPT ![t] =
                 IF gone THEN StreamingAudioPlayer_init
                 ELSE [@ EXCEPT !.thread = IF player[t].stop_event THEN "dead" ELSE "get"]]
          /\ lastPut' = [lastPut EXCEPT ![t] = IF gone THEN 0 ELSE @]
          /\ lastGot' = [lastGot EXCEPT ![t] = IF gone THEN NoGot ELSE @]
    /\ UNCHANGED <<ambient, turn, pc, exc, pending, first_chunk_time,
                   received_chunks, total_chunks, linesRead, complete_seen,
                   filler, hist, response_data>>
    /\ UNCHANGED notClient

\* The queue without its i-th item.
RemoveAt(q, i) == [j \in 1..(Len(q) - 1) |-> IF j < i THEN q[j] ELSE q[j + 1]]

\* Mutant: the worker takes the queued chunk with the smallest chunk_id
\* (a priority queue keyed by chunk_id) instead of the oldest one.
WorkerGet_ById(t, launched) ==
    /\ t <= turn
    /\ player[t].thread = "get"
    /\ player[t].queue # <<>>
    /\ LET q == player[t].queue
           i == CHOOSE k \in 1..Len(q) : \A m \in 1..Len(q) : q[k].id <= q[m].id
       IN /\ lastGot' = [lastGot EXCEPT ![t] = [n |-> q[i].n, id |-> q[i].id]]
          /\ player' = [player EXCEPT ![t] =
                IF launched
                THEN [@ EXCEPT !.queue = RemoveAt(q, i), !.thread = "playing"]
                ELSE Queue_task_done([@ EXCEPT !.queue = RemoveAt(q, i), !.thread = "top"])]
    /\ UNCHANGED <<ambient, turn, pc, exc, pending, first_chunk_time,
                   received_chunks, total_chunks, linesRead, complete_seen,
                   filler, lastPut, hist, response_data>>
    /\ UNCHANGED notClient

\* audio_queue.get returns the oldest item and the chunk is handed to
\* _play_with_paplay. launched = FALSE: writing the temp file or starting
\* the player raised, _play_with_paplay returns False at once, task_done.
WorkerGet(t, launched) ==
    /\ t <= turn
    /\ player[t].thread = "get"
    /\ player[t].queue # <<>>
    /\ lastGot' = [lastGot EXCEPT ![t] =
                      [n |-> Head(player[t].queue).n, id |-> Head(player[t].queue).id]]
    /\ player' = [player EXCEPT ![t] =
          IF launched
          THEN [@ EXCEPT !.queue = Tail(@), !.thread = "playing"]
          ELSE Queue_task_done([@ EXCEPT !.queue = Tail(@), !.thread = "top"])]
    /\ UNCHANGED <<ambient, turn, pc, exc, pending, first_chunk_time,
                   received_chunks, total_chunks, linesRead, complete_seen,
                   filler, lastPut, hist, response_data>>
    /\ UNCHANGED notClient

\* audio_queue.get(timeout=0.5) raises queue.Empty: `continue`
WorkerGetEmpty(t) ==
    /\ t <= turn
    /\ player[t].thread = "get"
    /\ player[t].queue = <<>>
    /\ player' = [player EXCEPT ![t].thread = "top"]
    /\ UNCHANGED <<ambient, turn, pc, exc, pending, first_chunk_time,
                   received_chunks, total_chunks, linesRead, complete_seen,
                   filler, lastPut, lastGot, hist, response_data>>
    /\ UNCHANGED notClient

\* Mutant: a failed chunk is skipped without task_done.
WorkerPlayEnd_FailureSkipsTaskDone(t, success) ==
    /\ t <= turn
    /\ player[t].thread = "playing"
    /\ player' = [player EXCEPT ![t] =
          IF success
          THEN Queue_task_done([@ EXCEPT !.thread = "top", !.chunks_played = @ + 1])
          ELSE [@ EXCEPT !.thread = "top"]]
    /\ UNCHANGED <<ambient, turn, pc, exc, pending, first_chunk_time,
                   received_chunks, total_chunks, linesRead, complete_seen,
                   filler, lastPut, lastGot, hist, response_data>>
    /\ UNCHANGED notClient

\* The player process ends (exit code 0 or not); the worker counts a
\* success, calls task_done and goes back to the loop head.
WorkerPlayEnd(t, success) ==
    /\ t <= turn
    /\ player[t].thread = "playing"
    /\ player' = [player EXCEPT ![t] =
          Queue_task_done([@ EXCEPT !.thread = "top",
                                    !.chunks_played = IF success THEN @ + 1 ELSE @])]
    /\ UNCHANGED <<ambient, turn, pc, exc, pending, first_chunk_time,
                   received_chunks, total_chunks, linesRead, complete_seen,
                   filler, lastPut, lastGot, hist, response_data>>
    /\ UNCHANGED notClient

\* ----------------------------------------------------------- AmbientPlayer
\* _ambient_loop: the player process plays the file to its end ...
AmbientProcEnd ==
    /\ ambient = "playing"
    /\ ambient' = "gap"
    /\ UNCHANGED <<turn, pc, exc, pending, first_chunk_time, received_chunks,
                   total_chunks, linesRead, complete_seen, filler, player,
                   lastPut, lastGot, hist, response_data>>
    /\ UNCHANGED notClient

\* ... and after the 0.1 s gap the loop starts the next one.
AmbientLoop ==
    /\ ambient = "gap"
    /\ ambient' = "playing"
    /\ UNCHANGED <<turn, pc, exc, pending, first_chunk_time, received_chunks,
                   total_chunks, linesRead, complete_seen, filler, player,
                   lastPut, lastGot, hist, response_data>>
    /\ UNCHANGED notClient

\* --------------------------------------- main loop, send_streaming_request
\* pc: "main" (conversation loop, between turns) | "connect" (client.stream
\* entered, no response yet) | "http_err_wait" | "read" (aiter_lines) |
\* "first_wait" | "pause" | "enqueue" | "complete_wait" | "error_wait" |
\* "wait_completion" | "stop_set" | "stop_join" | "exc_wait" | "cancelled"
\* The value of a return statement: None, or the dict of the response
\* with 'chunks_received': received_chunks, 'total_chunks': total_chunks.
Result(val) ==
    [kind |-> val,
     chunks_received |-> IF val = "dict" THEN received_chunks ELSE 0,
     total_chunks |-> IF val = "dict" THEN total_chunks ELSE 0]

NoResult == [kind |-> "none", chunks_received |-> 0, total_chunks |-> 0]

\* `return`: the call's locals are gone, the conversation loop goes on.
\* The filler player has no live thread on any return path and goes with
\* them; the audio player goes too unless its thread is still running.
Return(val, p) ==
    /\ response_data' = Result(val)
    /\ filler' = [filler EXCEPT ![turn] = IF Released(@) THEN NoFiller ELSE @]
    /\ player' = [player EXCEPT ![turn] =
                     IF ThreadAlive(p) THEN p ELSE StreamingAudioPlayer_init]
    /\ lastPut' = [lastPut EXCEPT ![turn] = IF ThreadAlive(p) THEN @ ELSE 0]
    /\ lastGot' = [lastGot EXCEPT ![turn] = IF ThreadAlive(p) THEN @ ELSE NoGot]
    /\ pc' = "main"
    /\ exc' = "none"
    /\ pending' = NoChunk
    /\ first_chunk_time' = "None"
    /\ received_chunks' = 0
    /\ total_chunks' = 0
    /\ complete_seen' = FALSE
    /\ hist' = <<>>

\* main: a transcribed utterance starts a turn. send_streaming_request
\* creates the filler player (None when fillers are disabled or no track is
\* found) and the audio player, and starts the filler before the request.
StartTurn(hasFiller) ==
    /\ pc = "main"
    /\ turn' = turn + 1
    /\ filler' = [filler EXCEPT ![turn + 1] =
                     IF hasFiller THEN start_filler(FillerPlayer_init) ELSE NoFiller]
    /\ player' = [player EXCEPT ![turn + 1] = StreamingAudioPlayer_init]
    /\ pc' = "connect"
    /\ exc' = "none"
    /\ pending' = NoChunk
    /\ first_chunk_time' = "None"
    /\ received_chunks' = 0
    /\ total_chunks' = 0
    /\ complete_seen' = FALSE
    /\ hist' = <<>>
    /\ UNCHANGED <<ambient, linesRead, lastPut, lastGot, response_data>>
    /\ UNCHANGED notClient

\* the first turn of the conversation
MainFirstTurn(hasFiller) ==
    /\ turn = 0
    /\ StartTurn(hasFiller)

\* the loop comes round: a later turn
MainLaterTurn(hasFiller) ==
    /\ turn >= 1
    /\ turn < MaxTurns
    /\ StartTurn(hasFiller)

\* The response headers arrive: status 200 starts the playback thread and
\* the line loop, any other status goes to the HTTP error branch.
HttpResponse(ok) ==
    /\ pc = "connect"
    /\ IF ok
       THEN /\ player' = [player EXCEPT ![turn] = start_playback(@)]
            /\ pc' = "read"
       ELSE /\ pc' = "http_err_wait"
            /\ UNCHANGED player
    /\ UNCHANGED <<ambient, turn, exc, pending, first_chunk_time, received_chunks,
                   total_chunks, linesRead, complete_seen, filler, lastPut,
                   lastGot, hist, response_data>>
    /\ UNCHANGED notClient

\* `while filler_player.is_filler_playing(): sleep(0.1)` then `return None`
HttpErrorReturn ==
    /\ pc = "http_err_wait"
    /\ ~FillerBusy(turn)
    /\ Return("None", player[turn])
    /\ UNCHANGED <<ambient, turn, linesRead>>
    /\ UNCHANGED notClient

\* httpx.TimeoutException / httpx.ConnectError / any other exception raised
\* while the request is being sent.
ConnectException(kind) ==
    /\ pc = "connect"
    /\ exc' = kind
    /\ pc' = "exc_wait"
    /\ UNCHANGED <<ambient, turn, pending, first_chunk_time, received_chunks,
                   total_chunks, linesRead, complete_seen, filler, player, lastPut,
                   lastGot, hist, response_data>>
    /\ UNCHANGED notClient

\* data['type'] == 'metadata'
OnMetadata(n) ==
    /\ pc = "read"
    /\ linesRead < MaxLines
    /\ linesRead' = linesRead + 1
    /\ total_chunks' = n
    /\ UNCHANGED <<ambient, turn, pc, exc, pending, first_chunk_time,
                   received_chunks, complete_seen, filler, player, lastPut,
                   lastGot, hist, response_data>>
    /\ UNCHANGED notClient

\* The call of add_audio_chunk and the lines after it.
EnqueueChunk(c) ==
    /\ put_ready(player[turn].queue)
    /\ player' = [player EXCEPT ![turn] = add_audio_chunk(@, c)]
    /\ lastPut' = [lastPut EXCEPT ![turn] = IF c.decodable THEN c.n ELSE @]
    /\ hist' = Append(hist, IF c.decodable THEN "enq" ELSE "drop")
    /\ received_chunks' = received_chunks + 1
    /\ pc' = "read"

\* Mutant: every audio_chunk, the first one too, is queued at once.
OnAudioChunk_NoWait(id, decodable) ==
    /\ pc = "read"
    /\ linesRead < MaxLines
    /\ linesRead' = linesRead + 1
    /\ first_chunk_time' = "set"
    /\ EnqueueChunk([n |-> received_chunks + 1, id |-> id, decodable |-> decodable])
    /\ UNCHANGED <<ambient, turn, exc, pending, total_chunks, complete_seen,
                   filler, lastGot, response_data>>
    /\ UNCHANGED notClient

\* data['type'] == 'audio_chunk': the first one of a turn with a filler
\* player goes to the filler poll loop, every other one is queued at once.
OnAudioChunk(id, decodable) ==
    /\ pc = "read"
    /\ linesRead < MaxLines
    /\ linesRead' = linesRead + 1
    /\ first_chunk_time' = "set"
    /\ LET c == [n |-> received_chunks + 1, id |-> id, decodable |-> decodable]
       IN IF first_chunk_time = "None" /\ filler[turn].exists
          THEN /\ pending' = c
               /\ pc' = "first_wait"
               /\ hist' = Append(hist, IF is_filler_playing(turn) THEN "early" ELSE "late")
               /\ UNCHANGED <<player, lastPut, received_chunks>>
          ELSE /\ EnqueueChunk(c)
               /\ UNCHANGED pending
    /\ UNCHANGED <<ambient, turn, exc, total_chunks, complete_seen, filler,
                   lastGot, response_data>>
    /\ UNCHANGED notClient

\* Mutant: the pause after the filler is left out.
FirstChunkFillerDone_NoPause ==
    /\ pc = "first_wait"
    /\ ~is_filler_playing(turn)
    /\ hist' = Append(hist, "obs")
    /\ pc' = "enqueue"
    /\ UNCHANGED <<ambient, turn, exc, pending, first_chunk_time, received_chunks,
                   total_chunks, linesRead, complete_seen, filler, player, lastPut,
                   lastGot, response_data>>
    /\ UNCHANGED notClient

\* `while filler_player.is_filler_playing(): await asyncio.sleep(0.1)` ends
FirstChunkFillerDone ==
    /\ pc = "first_wait"
    /\ ~is_filler_playing(turn)
    /\ hist' = Append(hist, "obs")
    /\ pc' = IF POST_FILLER_DELAY > 0 THEN "pause" ELSE "enqueue"
    /\ UNCHANGED <<ambient, turn, exc, pending, first_chunk_time, received_chunks,
                   total_chunks, linesRead, complete_seen, filler, player, lastPut,
                   lastGot, response_data>>
    /\ UNCHANGED notClient

\* `await asyncio.sleep(POST_FILLER_DELAY)` has elapsed
PostFillerPause ==
    /\ pc = "pause"
    /\ hist' = Append(hist, "pause")
    /\ pc' = "enqueue"
    /\ UNCHANGED <<ambient, turn, exc, pending, first_chunk_time, received_chunks,
                   total_chunks, linesRead, complete_seen, filler, player, lastPut,
                   lastGot, response_data>>
    /\ UNCHANGED notClient

\* the first chunk is handed to add_audio_chunk
EnqueueFirstChunk ==
    /\ pc = "enqueue"
    /\ EnqueueChunk(pending)
    /\ pending' = NoChunk
    /\ UNCHANGED <<ambient, turn, exc, first_chunk_time, total_chunks, linesRead,
                   complete_seen, filler, lastGot, response_data>>
    /\ UNCHANGED notClient

\* data['type'] == 'complete': with no chunk received the filler is waited
\* for, then `break`.
OnComplete ==
    /\ pc = "read"
    /\ complete_seen' = TRUE
    /\ pc' = IF received_chunks = 0 THEN "complete_wait" ELSE "wait_completion"
    /\ UNCHANGED <<ambient, turn, exc, pending, first_chunk_time, received_chunks,
                   total_chunks, linesRead, filler, player, lastPut, lastGot,
                   hist, response_data>>
    /\ UNCHANGED notClient

CompleteFillerDone ==
    /\ pc = "complete_wait"
    /\ ~FillerBusy(turn)
    /\ pc' = "wait_completion"
    /\ UNCHANGED <<ambient, turn, exc, pending, first_chunk_time, received_chunks,
                   total_chunks, linesRead, complete_seen, filler, player, lastPut,
                   lastGot, hist, response_data>>
    /\ UNCHANGED notClient

\* data['type'] == 'error'
OnError ==
    /\ pc = "read"
    /\ pc' = "error_wait"
    /\ UNCHANGED <<ambient, turn, exc, pending, first_chunk_time, received_chunks,
                   total_chunks, linesRead, complete_seen, filler, player, lastPut,
                   lastGot, hist, response_data>>
    /\ UNCHANGED notClient

\* the filler wait of the error branch ends: `return None`
ErrorReturn ==
    /\ pc = "error_wait"
    /\ ~FillerBusy(turn)
    /\ Return("None", player[turn])
    /\ UNCHANGED <<ambient, turn, linesRead>>
    /\ UNCHANGED notClient

\* Mutant: a chunk_error is handled like the stream-level error event.
OnChunkError_Abort ==
    /\ pc = "read"
    /\ linesRead < MaxLines
    /\ linesRead' = linesRead + 1
    /\ hist' = Append(hist, "cerr")
    /\ pc' = "error_wait"
    /\ UNCHANGED <<ambient, turn, exc, pending, first_chunk_time,
                   received_chunks, total_chunks, complete_seen, filler, player,
                   lastPut, lastGot, response_data>>
    /\ UNCHANGED notClient

\* data['type'] == 'chunk_error': printed, the loop goes on
OnChunkError ==
    /\ pc = "read"
    /\ linesRead < MaxLines
    /\ linesRead' = linesRead + 1
    /\ hist' = Append(hist, "cerr")
    /\ UNCHANGED <<ambient, turn, pc, exc, pending, first_chunk_time,
                   received_chunks, total_chunks, complete_seen, filler, player,
                   lastPut, lastGot, response_data>>
    /\ UNCHANGED notClient

\* an unknown event type, a data line that is not JSON, a non-data line
OnIgnoredLine(kind) ==
    /\ pc = "read"
    /\ kind \in {"unknown_type", "bad_json", "non_data"}
    /\ linesRead < MaxLines
    /\ linesRead' = linesRead + 1
    /\ UNCHANGED <<ambient, turn, pc, exc, pending, first_chunk_time,
                   received_chunks, total_chunks, complete_seen, filler, player,
                   lastPut, lastGot, hist, response_data>>
    /\ UNCHANGED notClient

\* aiter_lines ends without a terminal event
OnStreamEnd ==
    /\ pc = "read"
    /\ pc' = "wait_completion"
    /\ UNCHANGED <<ambient, turn, exc, pending, first_chunk_time, received_chunks,
                   total_chunks, linesRead, complete_seen, filler, player, lastPut,
                   lastGot, hist, response_data>>
    /\ UNCHANGED notClient

\* reading the next line raises (read timeout, a data line without 'type',
\* a broken connection)
ReadException(kind) ==
    /\ pc = "read"
    /\ kind \in {"timeout", "other"}
    /\ exc' = kind
    /\ pc' = "exc_wait"
    /\ UNCHANGED <<ambient, turn, pending, first_chunk_time, received_chunks,
                   total_chunks, linesRead, complete_seen, filler, player, lastPut,
                   lastGot, hist, response_data>>
    /\ UNCHANGED notClient

\* Mutant: the except branch stops the filler (stop_filler) instead of
\* waiting for it.
ExcFillerDone_Interrupt ==
    /\ pc = "exc_wait"
    /\ filler' = [filler EXCEPT ![turn].stop_event = @ \/ filler[turn].is_playing]
    /\ pc' = "stop_set"
    /\ UNCHANGED <<ambient, turn, exc, pending, first_chunk_time, received_chunks,
                   total_chunks, linesRead, complete_seen, player, lastPut,
                   lastGot, hist, response_data>>
    /\ UNCHANGED notClient

\* the filler wait of an except branch ends; next is stop_playback()
ExcFillerDone ==
    /\ pc = "exc_wait"
    /\ ~FillerBusy(turn)
    /\ pc' = "stop_set"
    /\ UNCHANGED <<ambient, turn, exc, pending, first_chunk_time, received_chunks,
                   total_chunks, linesRead, complete_seen, filler, player, lastPut,
                   lastGot, hist, response_data>>
    /\ UNCHANGED notClient

\* Mutant: waits until the queue is empty instead of joining it.
wait_for_completion_QueueEmpty ==
    /\ pc = "wait_completion"
    /\ player[turn].queue = <<>>
    /\ pc' = "stop_set"
    /\ UNCHANGED <<ambient, turn, exc, pending, first_chunk_time, received_chunks,
                   total_chunks, linesRead, complete_seen, filler, player, lastPut,
                   lastGot, hist, response_data>>
    /\ UNCHANGED notClient

\* audio_queue.join() returns: every put has been matched by a task_done
wait_for_completion ==
    /\ pc = "wait_completion"
    /\ player[turn].unfinished = 0
    /\ pc' = "stop_set"
    /\ UNCHANGED <<ambient, turn, exc, pending, first_chunk_time, received_chunks,
                   total_chunks, linesRead, complete_seen, filler, player, lastPut,
                   lastGot, hist, response_data>>
    /\ UNCHANGED notClient

\* stop_playback: self.stop_event.set()
stop_playback_set ==
    /\ pc = "stop_set"
    /\ player' = [player EXCEPT ![turn].stop_event = TRUE]
    /\ pc' = "stop_join"
    /\ UNCHANGED <<ambient, turn, exc, pending, first_chunk_time, received_chunks,
                   total_chunks, linesRead, complete_seen, filler, lastPut,
                   lastGot, hist, response_data>>
    /\ UNCHANGED notClient

\* stop_playback: play_thread.join(timeout=2) returns, because there is no
\* thread, the thread has ended, or 2 s have passed within one chunk (an
\* idle worker sees stop_event within its 0.5 s poll); then the return.
stop_playback_join ==
    /\ pc = "stop_join"
    /\ player[turn].thread \in {"none", "dead", "playing"}
    /\ Return(IF exc = "none" THEN "dict" ELSE "None",
              [player[turn] EXCEPT !.is_playing = FALSE])
    /\ UNCHANGED <<ambient, turn, linesRead>>
    /\ UNCHANGED notClient

\* A KeyboardInterrupt or the cancellation of the task (CancelledError, a
\* BaseException) is raised inside send_streaming_request. None of its
\* except clauses (TimeoutException, ConnectError, Exception) catches it
\* and it has no finally: the call is left as it stands. main's finally
\* stops the ambient audio and main ends.
Cancelled ==
    /\ pc \notin {"main", "cancelled"}
    /\ pc' = "cancelled"
    /\ ambient' = "off"
    /\ UNCHANGED <<turn, exc, pending, first_chunk_time, received_chunks,
                   total_chunks, linesRead, complete_seen, filler, player, lastPut,
                   lastGot, hist, response_data>>
    /\ UNCHANGED notClient

\* ----------------------------------------------------------- specification
\* The conversation has no turn yet. Spec: main() runs with ambient audio
\* disabled (AMBIENT_ENABLED=false, or no ambience file).
ClientInit ==
    /\ ambient = "off"
    /\ turn = 0
    /\ pc = "main"
    /\ exc = "none"
    /\ pending = NoChunk
    /\ first_chunk_time = "None"
    /\ received_chunks = 0
    /\ total_chunks = 0
    /\ linesRead = 0
    /\ complete_seen = FALSE
    /\ filler = [t \in Turns |-> NoFiller]
    /\ player = [t \in Turns |-> StreamingAudioPlayer_init]
    /\ lastPut = [t \in Turns |-> 0]
    /\ lastGot = [t \in Turns |-> NoGot]
    /\ hist = <<>>
    /\ response_data = NoResult

\* no request has reached the server
SeqIdle ==
    /\ seqState = "Idle"
    /\ backend = "idle"
    /\ next_chunk_id = 1
    /\ synth = <<>>
    /\ doneOrder = <<>>
    /\ events = <<>>

\* no text has been given to the segmenter
SegIdle ==
    /\ segPc = "idle"
    /\ reply = <<>>
    /\ fed = 0
    /\ buffer = <<>>
    /\ sentences = <<>>
    /\ segCall = [carried |-> 0, buffer |-> <<>>, complete_sentences |-> <<>>, remainder |-> <<>>]
    /\ flushes = 0

NoTts == [primary_calls |-> 0, fallback_calls |-> 0, outcome |-> "none"]
NoResponse == [status |-> 0, response |-> "none", audio_base64 |-> "none", error |-> "none"]

\* no request has reached /api/chat
ApiIdle ==
    /\ apiPc = "idle"
    /\ apiIn = [req |-> "ok", llm |-> [kind |-> "ok", status |-> 200],
                primary |-> "ok", fallback_audio |-> "b64"]
    /\ response_text = "unset"
    /\ tts = NoTts
    /\ apiResp = NoResponse

\* thread state: "none" | "select" (started, up to Popen) | "poll" | "dead"
NoWorker == [state |-> "none", track |-> 0, proc |-> "none"]
NoPlayer ==
    [exists |-> FALSE, last_played |-> 0, is_playing |-> FALSE,
     stop_event |-> FALSE, play_thread |-> 0]

\* no FillerPlayer has been created, nothing was called
FpNone ==
    /\ fp = NoPlayer
    /\ workers = [w \in 1..MaxStarts |-> NoWorker]
    /\ caller = [pc |-> "idle", last |-> "none", ret |-> "none"]
    /\ tracks = [prev |-> 0, cur |-> 0]

FpIdle == filler_files = 1 /\ FpNone

\* a history entry: its role and the utterance it belongs to
Entry(role, n) == [role |-> role, n |-> n]
SystemEntry == Entry("system", 0)

\* both programs have built their history and taken no utterance yet
HistIdle ==
    /\ messages = <<SystemEntry>>
    /\ conversation_start = "None"
    /\ deadline_passed = FALSE
    /\ loopPc = "listen"
    /\ utterances = 0
    /\ overdue = FALSE
    /\ self_messages = <<SystemEntry>>
    /\ llm_calls = 0

\* the header configured by REQUEST_ID_HEADER, and the other headers of a dict
REQUEST_ID_HEADER == "X-Request-Id"
HeaderNames == {REQUEST_ID_HEADER, "Content-Type", "Accept"}

\* a dict of headers: "absent" for a key the dict does not hold
HeaderDicts == [HeaderNames -> {"absent", "v"}]
NoHeaders == [k \in HeaderNames |-> "absent"]
NoReqCall == [op |-> "none", req_id |-> "None", before |-> NoHeaders, ret |-> "None"]

\* logger_utils is imported: the context variable holds its default, None
RidIdle ==
    /\ request_id_context = "None"
    /\ headers = NoHeaders
    /\ latest_set = "never"
    /\ reqCall = NoReqCall

\* streaming_client.StreamingAudioPlayer.__init__; the queue holds the
\* numbers of the chunk events
ScPlayer_init ==
    [queue |-> <<>>, unfinished |-> 0, stop_event |-> FALSE, thread |-> "none"]

\* streaming_client.py main has an utterance and is about to send it
ScIdle ==
    /\ sc_main = "listen"
    /\ request_task = "none"
    /\ sc_player = ScPlayer_init
    /\ sc_filler = "none"
    /\ sc_received = 0

Init == ClientInit /\ SeqIdle /\ SegIdle /\ ApiIdle /\ FpIdle /\ HistIdle /\ RidIdle /\ ScIdle

\* main() has called start_ambient() before the conversation loop.
InitAmbient ==
    /\ ambient = "playing"
    /\ turn = 0
    /\ pc = "main"
    /\ exc = "none"
    /\ pending = NoChunk
    /\ first_chunk_time = "None"
    /\ received_chunks = 0
    /\ total_chunks = 0
    /\ linesRead = 0
    /\ complete_seen = FALSE
    /\ filler = [t \in Turns |-> NoFiller]
    /\ player = [t \in Turns |-> StreamingAudioPlayer_init]
    /\ lastPut = [t \in Turns |-> 0]
    /\ lastGot = [t \in Turns |-> NoGot]
    /\ hist = <<>>
    /\ response_data = NoResult
    /\ SeqIdle
    /\ SegIdle
    /\ ApiIdle
    /\ FpIdle
    /\ HistIdle /\ RidIdle /\ ScIdle

\* StreamingAudioPlayer.playback_worker of the player of turn t
playback_worker(t) ==
    \/ WorkerCheckStop(t)
    \/ \E launched \in BOOLEAN : WorkerGet(t, launched)
    \/ WorkerGetEmpty(t)
    \/ \E success \in BOOLEAN : WorkerPlayEnd(t, success)

Worker == \E t \in Turns : playback_worker(t)

FillerWorker ==
    \E t \in Turns :
        \/ \E launched \in BOOLEAN : FillerLaunch(t, launched)
        \/ FillerProcExit(t)
        \/ FillerPoll(t)

Request ==
    \/ \E hasFiller \in BOOLEAN : MainFirstTurn(hasFiller)
    \/ \E ok \in BOOLEAN : HttpResponse(ok)
    \/ HttpErrorReturn
    \/ \E kind \in {"timeout", "connect", "other"} : ConnectException(kind)
    \/ \E n \in TotalChunkHints : OnMetadata(n)
    \/ \E id \in ChunkIds, decodable \in BOOLEAN : OnAudioChunk(id, decodable)
    \/ FirstChunkFillerDone
    \/ PostFillerPause
    \/ EnqueueFirstChunk
    \/ OnComplete
    \/ CompleteFillerDone
    \/ OnError
    \/ ErrorReturn
    \/ OnChunkError
    \/ \E kind \in {"unknown_type", "bad_json", "non_data"} : OnIgnoredLine(kind)
    \/ OnStreamEnd
    \/ \E kind \in {"timeout", "other"} : ReadException(kind)
    \/ ExcFillerDone
    \/ wait_for_completion
    \/ stop_playback_set
    \/ stop_playback_join

Next == Request \/ Worker \/ FillerWorker

LaterTurn == \E hasFiller \in BOOLEAN : MainLaterTurn(hasFiller)

Ambient == AmbientProcEnd \/ AmbientLoop

\* one call of send_streaming_request, the first of the conversation, with
\* the threads it starts; ambient audio off
Spec == Init /\ [][Next]_vars

\* the conversation loop, up to MaxTurns turns: threads of earlier calls
\* run on beside the later ones
ConversationSpec == Init /\ [][Next \/ LaterTurn]_vars

\* one call that a keyboard interrupt or a cancellation may end at any point
CancelSpec == Init /\ [][Next \/ Cancelled]_vars

\* the same with the ambient loop running
AmbientSpec == InitAmbient /\ [][Next \/ LaterTurn \/ Ambient]_vars

\* threads are scheduled and player processes end; the coroutine leaves
\* audio_queue.join() once it can
LiveSpec ==
    /\ Spec
    /\ \A t \in Turns : WF_vars(playback_worker(t))
    /\ WF_vars(wait_for_completion)

\* ------------------- one StreamingAudioPlayer (client.py) and its callers
\* pc: "api" (between calls) | "api_join" (in stop_playback's join)
\* hist: <<"started">> from the return of a start_playback() up to the next
\* stop_playback()
\* audio_player.start_playback()
CallStartPlayback ==
    /\ pc = "api"
    /\ player' = [player EXCEPT ![1] = start_playback(@)]
    /\ hist' = <<"started">>
    /\ UNCHANGED <<ambient, turn, pc, exc, pending, first_chunk_time,
                   received_chunks, total_chunks, linesRead, complete_seen,
                   filler, lastPut, lastGot, response_data>>
    /\ UNCHANGED notClient

\* audio_player.add_audio_chunk(audio_base64, chunk_id)
CallAddAudioChunk(id, decodable) ==
    /\ pc = "api"
    /\ received_chunks < MaxLines
    /\ received_chunks' = received_chunks + 1
    /\ put_ready(player[1].queue)
    /\ player' = [player EXCEPT ![1] =
          add_audio_chunk(@, [n |-> received_chunks + 1, id |-> id,
                              decodable |-> decodable])]
    /\ lastPut' = [lastPut EXCEPT ![1] = IF decodable THEN received_chunks + 1 ELSE @]
    /\ UNCHANGED <<ambient, turn, pc, exc, pending, first_chunk_time,
                   total_chunks, linesRead, complete_seen, filler, lastGot,
                   hist, response_data>>
    /\ UNCHANGED notClient

\* audio_player.stop_playback(): self.stop_event.set()
CallStopPlaybackSet ==
    /\ pc = "api"
    /\ player' = [player EXCEPT ![1].stop_event = TRUE]
    /\ pc' = "api_join"
    /\ hist' = <<>>
    /\ UNCHANGED <<ambient, turn, exc, pending, first_chunk_time,
                   received_chunks, total_chunks, linesRead, complete_seen,
                   filler, lastPut, lastGot, response_data>>
    /\ UNCHANGED notClient

\* play_thread.join(timeout=2) returns (no thread, thread ended, or 2 s
\* have passed within one chunk); is_playing = False
CallStopPlaybackJoin ==
    /\ pc = "api_join"
    /\ player[1].thread \in {"none", "dead", "playing"}
    /\ player' = [player EXCEPT ![1].is_playing = FALSE]
    /\ pc' = "api"
    /\ UNCHANGED <<ambient, turn, exc, pending, first_chunk_time,
                   received_chunks, total_chunks, linesRead, complete_seen,
                   filler, lastPut, lastGot, hist, response_data>>
    /\ UNCHANGED notClient

PlayerCalls ==
    \/ CallStartPlayback
    \/ \E id \in ChunkIds, decodable \in BOOLEAN : CallAddAudioChunk(id, decodable)
    \/ CallStopPlaybackSet
    \/ CallStopPlaybackJoin

\* a StreamingAudioPlayer has been constructed; its owner is about to
\* call its methods
PlayerInit ==
    /\ ambient = "off"
    /\ turn = 1
    /\ pc = "api"
    /\ exc = "none"
    /\ pending = NoChunk
    /\ first_chunk_time = "None"
    /\ received_chunks = 0
    /\ total_chunks = 0
    /\ linesRead = 0
    /\ complete_seen = FALSE
    /\ filler = [t \in Turns |-> NoFiller]
    /\ player = [t \in Turns |-> StreamingAudioPlayer_init]
    /\ lastPut = [t \in Turns |-> 0]
    /\ lastGot = [t \in Turns |-> NoGot]
    /\ hist = <<>>
    /\ response_data = NoResult
    /\ SeqIdle
    /\ SegIdle
    /\ ApiIdle
    /\ FpIdle
    /\ HistIdle /\ RidIdle /\ ScIdle

\* the methods of one StreamingAudioPlayer called in any order, with its
\* worker thread
PlayerSpec == PlayerInit /\ [][PlayerCalls \/ playback_worker(1)]_vars

\* ------------------------------------------- chunk sequencer (server, 4.3)
\* A StreamEvent; chunk_id and sentence are 0 where the event has none.
\* sentence is the place of the source text in segmentation order.
StreamEvent(type, id, k) == [type |-> type, chunk_id |-> id, sentence |-> k]

IsChunkEvent(e) == e.type \in {"audio_chunk", "chunk_error"}
IsTerminal(e) == e.type \in {"complete", "error"}

\* the audio_chunk and chunk_error events, in emission order
ChunkEvents == SelectSeq(events, IsChunkEvent)

\* Idle -> AwaitingText: the request is taken and the backend is called
AwaitText ==
    /\ seqState = "Idle"
    /\ seqState' = "AwaitingText"
    /\ backend' = "open"
    /\ UNCHANGED <<next_chunk_id, synth, doneOrder, events>>
    /\ UNCHANGED notSeq

\* the optional metadata event comes before every sentence event
EmitMetadata ==
    /\ seqState = "AwaitingText"
    /\ backend = "open"
    /\ events = <<>>
    /\ events' = <<StreamEvent("metadata", 0, 0)>>
    /\ UNCHANGED <<seqState, backend, next_chunk_id, synth, doneOrder>>
    /\ UNCHANGED notSeq

\* Segmenting: text from the backend completes a sentence, which is
\* dispatched to a synthesis worker at once
DispatchSentence ==
    /\ seqState = "AwaitingText"
    /\ backend = "open"
    /\ Len(synth) < MaxSentences
    /\ synth' = Append(synth, "running")
    /\ UNCHANGED <<seqState, backend, next_chunk_id, doneOrder, events>>
    /\ UNCHANGED notSeq

\* Draining: the backend signals end-of-text; a remainder that is left is
\* flushed as the final sentence and dispatched like the others
Drain(flush) ==
    /\ seqState = "AwaitingText"
    /\ backend = "open"
    /\ flush => Len(synth) < MaxSentences
    /\ backend' = "ended"
    /\ seqState' = "Draining"
    /\ synth' = IF flush THEN Append(synth, "running") ELSE synth
    /\ UNCHANGED <<next_chunk_id, doneOrder, events>>
    /\ UNCHANGED notSeq

\* a synthesis worker finishes sentence k: with audio (primary or
\* fallback), or with a failure after the fallback failed too
SynthesisDone(k, ok) ==
    /\ k \in 1..Len(synth)
    /\ synth[k] = "running"
    /\ synth' = [synth EXCEPT ![k] = IF ok THEN "ok" ELSE "failed"]
    /\ doneOrder' = Append(doneOrder, k)
    /\ UNCHANGED <<seqState, backend, next_chunk_id, events>>
    /\ UNCHANGED notSeq

\* Mutant: a sentence is emitted as soon as its synthesis has completed.
EmitNext_AsCompleted ==
    /\ seqState \in {"AwaitingText", "Draining"}
    /\ \E k \in 1..Len(synth) :
          /\ synth[k] # "running"
          /\ \A i \in 1..Len(ChunkEvents) : ChunkEvents[i].sentence # k
          /\ events' = Append(events,
                StreamEvent(IF synth[k] = "ok" THEN "audio_chunk" ELSE "chunk_error",
                            next_chunk_id, k))
    /\ next_chunk_id' = next_chunk_id + 1
    /\ UNCHANGED <<seqState, backend, synth, doneOrder>>
    /\ UNCHANGED notSeq

\* Mutant: a sentence whose synthesis failed ends the stream with error.
EmitNext_FailureAborts ==
    /\ seqState \in {"AwaitingText", "Draining"}
    /\ LET k == Len(ChunkEvents) + 1
       IN /\ k <= Len(synth)
          /\ synth[k] # "running"
          /\ IF synth[k] = "ok"
             THEN /\ events' = Append(events, StreamEvent("audio_chunk", next_chunk_id, k))
                  /\ next_chunk_id' = next_chunk_id + 1
                  /\ UNCHANGED seqState
             ELSE /\ events' = Append(events, StreamEvent("error", 0, 0))
                  /\ seqState' = "Failed"
                  /\ UNCHANGED next_chunk_id
    /\ UNCHANGED <<backend, synth, doneOrder>>
    /\ UNCHANGED notSeq

\* The sequencer releases the oldest sentence not yet emitted once its
\* synthesis has completed, as audio_chunk or chunk_error, with a freshly
\* allocated chunk_id; completions of later sentences stay buffered.
EmitNext ==
    /\ seqState \in {"AwaitingText", "Draining"}
    /\ LET k == Len(ChunkEvents) + 1
       IN /\ k <= Len(synth)
          /\ synth[k] # "running"
          /\ events' = Append(events,
                StreamEvent(IF synth[k] = "ok" THEN "audio_chunk" ELSE "chunk_error",
                            next_chunk_id, k))
    /\ next_chunk_id' = next_chunk_id + 1
    /\ UNCHANGED <<seqState, backend, synth, doneOrder>>
    /\ UNCHANGED notSeq

\* Draining -> Complete: every sentence has been emitted
EmitComplete ==
    /\ seqState = "Draining"
    /\ Len(ChunkEvents) = Len(synth)
    /\ events' = Append(events, StreamEvent("complete", 0, 0))
    /\ seqState' = "Complete"
    /\ UNCHANGED <<backend, next_chunk_id, synth, doneOrder>>
    /\ UNCHANGED notSeq

\* the backend call fails: connection failure, timeout, malformed reply
BackendFails ==
    /\ backend = "open"
    /\ backend' = "failed"
    /\ UNCHANGED <<seqState, next_chunk_id, synth, doneOrder, events>>
    /\ UNCHANGED notSeq

\* AwaitingText -> Failed: the turn is aborted with the error event
EmitError ==
    /\ seqState = "AwaitingText"
    /\ backend = "failed"
    /\ events' = Append(events, StreamEvent("error", 0, 0))
    /\ seqState' = "Failed"
    /\ UNCHANGED <<backend, next_chunk_id, synth, doneOrder>>
    /\ UNCHANGED notSeq

Sequencer ==
    \/ AwaitText
    \/ EmitMetadata
    \/ DispatchSentence
    \/ \E flush \in BOOLEAN : Drain(flush)
    \/ \E k \in 1..MaxSentences, ok \in BOOLEAN : SynthesisDone(k, ok)
    \/ EmitNext
    \/ EmitComplete
    \/ BackendFails
    \/ EmitError

\* one request to the streaming endpoint; the client is not running
SequencerSpec == Init /\ [][Sequencer]_vars

\* the backend call returns or fails, synthesis workers finish, and the
\* sequencer goes on while it can
SequencerLiveSpec == SequencerSpec /\ WF_vars(Sequencer)

\* ---------------------------------------------- sentence segmenter (4.1)
\* Text is a sequence of characters: a letter, two sentence-terminal
\* punctuation marks and a whitespace character.
Alphabet == {"a", ".", "!", " "}
IsPunct(c) == c \in {".", "!", "?"}
IsSpace(c) == c = " "
Texts == UNION {[1..n -> Alphabet] : n \in 0..MaxTextLen}

\* the places where a punctuation run is followed by whitespace
Boundaries(b) == {i \in 2..Len(b) : IsPunct(b[i - 1]) /\ IsSpace(b[i])}
FirstBoundary(b) == CHOOSE i \in Boundaries(b) : \A j \in Boundaries(b) : i <= j

\* Mutant: the whitespace after the punctuation run is dropped.
RECURSIVE segment_DropWhitespace(_)
segment_DropWhitespace(b) ==
    IF Boundaries(b) = {}
    THEN [complete_sentences |-> <<>>, remainder |-> b]
    ELSE LET i == FirstBoundary(b)
             r == segment_DropWhitespace(SubSeq(b, i + 1, Len(b)))
         IN [complete_sentences |-> <<SubSeq(b, 1, i - 1)>> \o r.complete_sentences,
             remainder |-> r.remainder]

\* Mutant: a sentence takes the whole whitespace run that follows it.
RECURSIVE segment_WhitespaceRun(_)
segment_WhitespaceRun(b) ==
    IF Boundaries(b) = {}
    THEN [complete_sentences |-> <<>>, remainder |-> b]
    ELSE LET i == FirstBoundary(b)
             e == CHOOSE k \in i..Len(b) :
                     /\ \A j \in i..k : IsSpace(b[j])
                     /\ k = Len(b) \/ ~IsSpace(b[k + 1])
             r == segment_WhitespaceRun(SubSeq(b, e + 1, Len(b)))
         IN [complete_sentences |-> <<SubSeq(b, 1, e)>> \o r.complete_sentences,
             remainder |-> r.remainder]

\* segment(buffer) -> (complete_sentences, remainder): the buffer is split
\* where a punctuation run is followed by whitespace; a sentence is the
\* contiguous span up to and with that boundary, and what follows the last
\* boundary is the incomplete remainder.
RECURSIVE segment(_)
segment(b) ==
    IF Boundaries(b) = {}
    THEN [complete_sentences |-> <<>>, remainder |-> b]
    ELSE LET i == FirstBoundary(b)
             r == segment(SubSeq(b, i + 1, Len(b)))
         IN [complete_sentences |-> <<SubSeq(b, 1, i)>> \o r.complete_sentences,
             remainder |-> r.remainder]

\* the texts of a list, one after the other
RECURSIVE Concat(_)
Concat(list) == IF list = <<>> THEN <<>> ELSE Head(list) \o Concat(Tail(list))

\* end-of-stream: the remainder is flushed as the final sentence
Flushed(rem) == IF rem = <<>> THEN <<>> ELSE <<rem>>

\* the text arrives: all of it in one update (whole-reply mode) or the
\* next n characters (streaming mode); the buffer goes through the
\* segmenter, the complete sentences go on, the remainder is carried over
Feed(n) ==
    /\ segPc = "feeding"
    /\ n >= 1
    /\ fed + n <= Len(reply)
    /\ LET b == buffer \o SubSeq(reply, fed + 1, fed + n)
           res == segment(b)
       IN /\ segCall' = [carried |-> Len(buffer),
                         buffer |-> b,
                         complete_sentences |-> res.complete_sentences,
                         remainder |-> res.remainder]
          /\ sentences' = sentences \o res.complete_sentences
          /\ buffer' = res.remainder
    /\ fed' = fed + n
    /\ UNCHANGED <<segPc, reply, flushes>>
    /\ UNCHANGED notSeg

\* the backend signals end-of-text: the remainder is flushed
Flush ==
    /\ segPc = "feeding"
    /\ fed = Len(reply)
    /\ sentences' = sentences \o Flushed(buffer)
    /\ flushes' = flushes + Len(Flushed(buffer))
    /\ buffer' = <<>>
    /\ segPc' = "done"
    /\ UNCHANGED <<reply, fed, segCall>>
    /\ UNCHANGED notSeg

Segmenter ==
    \/ \E n \in 1..MaxTextLen : Feed(n)
    \/ Flush

\* a reply text is about to arrive
SegmenterInit ==
    /\ ClientInit
    /\ SeqIdle
    /\ ApiIdle
    /\ FpIdle
    /\ HistIdle /\ RidIdle /\ ScIdle
    /\ segPc = "feeding"
    /\ reply \in Texts
    /\ fed = 0
    /\ buffer = <<>>
    /\ sentences = <<>>
    /\ segCall = [carried |-> 0, buffer |-> <<>>, complete_sentences |-> <<>>, remainder |-> <<>>]
    /\ flushes = 0

SegmenterSpec == SegmenterInit /\ [][Segmenter]_vars

\* ------------------------------------------------ llm-api: /api/chat
\* The request body: not JSON, empty, without 'model', without 'messages',
\* or valid.
Requests == {"not_json", "empty", "no_model", "no_messages", "ok"}

\* What the backend call meets: requests.post raises Timeout or
\* ConnectionError; the backend replies with a status other than 200; the
\* body is not JSON; 'choices' is missing or empty; the choice has no
\* 'message'; the message has no 'content'; the content is blank; the
\* content is left blank by the post-processing (only characters that
\* encode('utf-8', errors='ignore') drops); the content is a reply text.
BackendStatuses == {400, 429, 500, 503}
LlmOutcomes ==
    {[kind |-> k, status |-> 0] : k \in {"timeout", "connection"}}
      \cup {[kind |-> "status", status |-> st] : st \in BackendStatuses}
      \cup {[kind |-> k, status |-> 200] :
               k \in {"bad_json", "no_choices", "empty_choices", "no_message",
                      "no_content", "blank_content", "blank_processed", "ok"}}

\* call_llm_api: what it returns or raises. The HTTPError of a non-200
\* status is constructed from a message only, so its response is None.
call_llm_api(llm) ==
    CASE llm.kind = "timeout" -> [raise |-> "Timeout", response |-> "None", ret |-> "none"]
      [] llm.kind = "connection" -> [raise |-> "ConnectionError", response |-> "None", ret |-> "none"]
      [] llm.status # 200 -> [raise |-> "HTTPError", response |-> "None", ret |-> "none"]
      [] llm.kind \in {"bad_json", "no_choices", "empty_choices", "no_message",
                       "no_content", "blank_content"} ->
             [raise |-> "Exception", response |-> "None", ret |-> "none"]
      [] llm.kind = "blank_processed" -> [raise |-> "none", response |-> "None", ret |-> "blank"]
      [] OTHER -> [raise |-> "none", response |-> "None", ret |-> "text"]

\* jsonify({...}), status
Response(status, text, audio, error) ==
    [status |-> status, response |-> text, audio_base64 |-> audio, error |-> error]

\* the except clauses of chat_api for the backend call. e.response is None
\* for the HTTPError call_llm_api raises: e.response.status_code raises
\* AttributeError inside the handler and the outer `except Exception`
\* answers.
LlmErrorResponse(r) ==
    CASE r.raise = "Timeout" -> Response(504, "none", "none", "LLM API request timed out")
      [] r.raise = "ConnectionError" -> Response(503, "none", "none", "Cannot connect to LLM API")
      [] r.raise = "HTTPError" ->
             IF r.response = "None"
             THEN Response(500, "none", "none", "Internal server error")
             ELSE Response(r.response.status_code, "none", "none", "LLM API error")
      [] OTHER -> Response(500, "none", "none", "Failed to get response from LLM")

\* a request reaches /api/chat
ChatRequest ==
    /\ apiPc = "idle"
    /\ apiPc' = "validate"
    /\ UNCHANGED <<apiIn, response_text, tts, apiResp>>
    /\ UNCHANGED notApi

\* chat_api: the request is validated
ChatValidate ==
    /\ apiPc = "validate"
    /\ IF apiIn.req = "ok"
       THEN /\ apiPc' = "call_llm"
            /\ UNCHANGED apiResp
       ELSE /\ apiPc' = "done"
            /\ apiResp' = Response(400, "none", "none",
                  CASE apiIn.req = "not_json" -> "Content-Type must be application/json"
                    [] apiIn.req = "empty" -> "No data received"
                    [] apiIn.req = "no_model" -> "Missing required field: model"
                    [] OTHER -> "Missing required field: messages")
    /\ UNCHANGED <<apiIn, response_text, tts>>
    /\ UNCHANGED notApi

\* chat_api: response_text = call_llm_api(...), the check for an empty
\* reply, and the except clauses of the backend call
ChatCallLlm ==
    /\ apiPc = "call_llm"
    /\ LET r == call_llm_api(apiIn.llm)
       IN IF r.raise # "none"
          THEN /\ apiResp' = LlmErrorResponse(r)
               /\ apiPc' = "done"
               /\ UNCHANGED response_text
          ELSE /\ response_text' = r.ret
               /\ IF r.ret = "blank"
                  THEN /\ apiResp' = Response(500, "none", "none", "Empty response from LLM")
                       /\ apiPc' = "done"
                  ELSE /\ apiPc' = "tts_primary"
                       /\ UNCHANGED apiResp
    /\ UNCHANGED <<apiIn, tts>>
    /\ UNCHANGED notApi

\* FallbackTTSProvider.generate_audio: raises when no fallback audio was
\* loaded (file missing, or the placeholder), else returns it
FallbackTTSProvider_generate_audio(fallback_audio) ==
    IF fallback_audio = "" THEN "raise" ELSE "fallback"

\* Mutant: the fallback is not tried; the primary's failure is raised.
generate_sentence_audio_primary_NoFallback ==
    /\ apiPc = "tts_primary"
    /\ tts' = [tts EXCEPT !.primary_calls = @ + 1,
                          !.outcome = IF apiIn.primary = "ok" THEN "primary" ELSE "raise"]
    /\ apiPc' = "respond"
    /\ UNCHANGED <<apiIn, response_text, apiResp>>
    /\ UNCHANGED notApi

\* generate_sentence_audio: tts_provider.generate_audio(sentence) returns
\* the audio, or raises and the fallback is tried
generate_sentence_audio_primary ==
    /\ apiPc = "tts_primary"
    /\ IF apiIn.primary = "ok"
       THEN /\ tts' = [tts EXCEPT !.primary_calls = @ + 1, !.outcome = "primary"]
            /\ apiPc' = "respond"
       ELSE /\ tts' = [tts EXCEPT !.primary_calls = @ + 1]
            /\ apiPc' = "tts_fallback"
    /\ UNCHANGED <<apiIn, response_text, apiResp>>
    /\ UNCHANGED notApi

\* generate_sentence_audio: fallback_provider.generate_audio(sentence)
\* returns the fallback audio, or raises and "All TTS providers failed"
\* is raised
generate_sentence_audio_fallback ==
    /\ apiPc = "tts_fallback"
    /\ tts' = [tts EXCEPT !.fallback_calls = @ + 1,
                          !.outcome = FallbackTTSProvider_generate_audio(apiIn.fallback_audio)]
    /\ apiPc' = "respond"
    /\ UNCHANGED <<apiIn, response_text, apiResp>>
    /\ UNCHANGED notApi

\* Mutant: a synthesis failure is answered like a backend failure.
ChatRespond_TtsFailureIsError ==
    /\ apiPc = "respond"
    /\ apiResp' = IF tts.outcome = "raise"
                  THEN Response(500, "none", "none", "Failed to get response from LLM")
                  ELSE Response(200, response_text, tts.outcome, "none")
    /\ apiPc' = "done"
    /\ UNCHANGED <<apiIn, response_text, tts>>
    /\ UNCHANGED notApi

\* chat_api: the response with text and audio, or, when
\* generate_sentence_audio raised, the text-only response, status 200
ChatRespond ==
    /\ apiPc = "respond"
    /\ apiResp' = IF tts.outcome = "raise"
                  THEN Response(200, response_text, "none",
                                "TTS generation failed, returning text only")
                  ELSE Response(200, response_text, tts.outcome, "none")
    /\ apiPc' = "done"
    /\ UNCHANGED <<apiIn, response_text, tts>>
    /\ UNCHANGED notApi

ChatApi ==
    \/ ChatRequest
    \/ ChatValidate
    \/ ChatCallLlm
    \/ generate_sentence_audio_primary
    \/ generate_sentence_audio_fallback
    \/ ChatRespond

\* a request is about to arrive; its body, the backend and the providers
\* are in any of their conditions
ChatApiInit ==
    /\ ClientInit
    /\ SeqIdle
    /\ SegIdle
    /\ FpIdle
    /\ HistIdle /\ RidIdle /\ ScIdle
    /\ apiPc = "idle"
    /\ apiIn \in [req : Requests, llm : LlmOutcomes, primary : {"ok", "raise"},
                  fallback_audio : {"", "b64"}]
    /\ response_text = "unset"
    /\ tts = NoTts
    /\ apiResp = NoResponse

ChatApiSpec == ChatApiInit /\ [][ChatApi]_vars

\* --------------------------------------- FillerPlayer, its callers, threads
\* FillerPlayer.__init__: nothing played yet, no thread
FillerPlayer_new ==
    [exists |-> TRUE, last_played |-> 0, is_playing |-> FALSE,
     stop_event |-> FALSE, play_thread |-> 0]

Started == {w \in 1..MaxStarts : workers[w].state # "none"}
Alive(w) == workers[w].state \in {"select", "poll"}

\* _select_random_filler: every track, without the last played one when
\* there is more than one track and one was played by this player
Available(f) ==
    IF filler_files > 1 /\ f.last_played # 0
    THEN (1..filler_files) \ {f.last_played}
    ELSE 1..filler_files

\* send_streaming_request creates the FillerPlayer of the request; one
\* player is followed at a time, so the next is created once the threads
\* of the one before have ended
CreateFillerPlayer ==
    /\ caller.pc = "idle"
    /\ \A w \in 1..MaxStarts : ~Alive(w)
    /\ fp' = FillerPlayer_new
    /\ caller' = [pc |-> "idle", last |-> "create", ret |-> "none"]
    /\ UNCHANGED <<filler_files, workers, tracks>>
    /\ UNCHANGED notFp

\* start_filler(): False when marked playing; else the stop event is
\* cleared, the player is marked playing, a thread is started, True
CallStartFiller ==
    /\ caller.pc = "idle"
    /\ fp.exists
    /\ IF fp.is_playing
       THEN /\ caller' = [pc |-> "idle", last |-> "start", ret |-> "False"]
            /\ UNCHANGED <<fp, workers>>
       ELSE /\ Cardinality(Started) < MaxStarts
            /\ LET w == Cardinality(Started) + 1
               IN /\ fp' = [fp EXCEPT !.stop_event = FALSE, !.is_playing = TRUE,
                                      !.play_thread = w]
                  /\ workers' = [workers EXCEPT ![w].state = "select"]
            /\ caller' = [pc |-> "idle", last |-> "start", ret |-> "True"]
    /\ UNCHANGED <<filler_files, tracks>>
    /\ UNCHANGED notFp

\* stop_filler(): returns at once when not marked playing; else sets the
\* stop event and joins the thread
stop_filler_set ==
    /\ caller.pc = "idle"
    /\ fp.exists
    /\ IF fp.is_playing
       THEN /\ fp' = [fp EXCEPT !.stop_event = TRUE]
            /\ caller' = [caller EXCEPT !.pc = "stop_join"]
       ELSE /\ caller' = [pc |-> "idle", last |-> "stop", ret |-> "none"]
            /\ UNCHANGED fp
    /\ UNCHANGED <<filler_files, workers, tracks>>
    /\ UNCHANGED notFp

\* Mutant: is_playing is left as it is when the join has timed out.
stop_filler_join_NoReset ==
    /\ caller.pc = "stop_join"
    /\ fp' = [fp EXCEPT !.is_playing =
                 IF fp.play_thread # 0 /\ Alive(fp.play_thread) THEN @ ELSE FALSE]
    /\ caller' = [pc |-> "idle", last |-> "stop", ret |-> "none"]
    /\ UNCHANGED <<filler_files, workers, tracks>>
    /\ UNCHANGED notFp

\* stop_filler(): play_thread.join(timeout=2.0) returns, the thread ended
\* or not; is_playing = False; return
stop_filler_join ==
    /\ caller.pc = "stop_join"
    /\ fp' = [fp EXCEPT !.is_playing = FALSE]
    /\ caller' = [pc |-> "idle", last |-> "stop", ret |-> "none"]
    /\ UNCHANGED <<filler_files, workers, tracks>>
    /\ UNCHANGED notFp

\* _playback_worker up to subprocess.Popen: a track is selected and
\* remembered; the worker returns when the stop event is set or when
\* reading the file or starting the player raises; `finally` clears
\* is_playing
FpSelect(w, track, launched) ==
    /\ workers[w].state = "select"
    /\ track \in Available(fp)
    /\ IF fp.stop_event \/ ~launched
       THEN /\ workers' = [workers EXCEPT ![w] = [@ EXCEPT !.state = "dead", !.track = track]]
            /\ fp' = [fp EXCEPT !.last_played = track, !.is_playing = FALSE]
            /\ UNCHANGED tracks
       ELSE /\ workers' = [workers EXCEPT ![w] =
                              [state |-> "poll", track |-> track, proc |-> "running"]]
            /\ fp' = [fp EXCEPT !.last_played = track]
            /\ tracks' = [prev |-> tracks.cur, cur |-> track]
    /\ UNCHANGED <<filler_files, caller>>
    /\ UNCHANGED notFp

\* the player process reaches the end of the track
FpProcExit(w) ==
    /\ workers[w].proc = "running"
    /\ workers' = [workers EXCEPT ![w].proc = "exited"]
    /\ UNCHANGED <<filler_files, fp, caller, tracks>>
    /\ UNCHANGED notFp

\* the poll loop ends: the process has ended, or the stop event is set and
\* the process is terminated; `finally` clears is_playing
FpPoll(w) ==
    /\ workers[w].state = "poll"
    /\ workers[w].proc = "exited" \/ fp.stop_event
    /\ workers' = [workers EXCEPT ![w] =
          [@ EXCEPT !.state = "dead",
                    !.proc = IF workers[w].proc = "exited" THEN "exited" ELSE "terminated"]]
    /\ fp' = [fp EXCEPT !.is_playing = FALSE]
    /\ UNCHANGED <<filler_files, caller, tracks>>
    /\ UNCHANGED notFp

FillerCalls ==
    \/ CreateFillerPlayer
    \/ CallStartFiller
    \/ stop_filler_set
    \/ stop_filler_join

FillerThreads ==
    \E w \in 1..MaxStarts :
        \/ \E track \in 1..MaxTracks, launched \in BOOLEAN : FpSelect(w, track, launched)
        \/ FpProcExit(w)
        \/ FpPoll(w)

\* the filler directory holds one or more tracks
FillerInit ==
    /\ ClientInit
    /\ SeqIdle
    /\ SegIdle
    /\ ApiIdle
    /\ HistIdle /\ RidIdle /\ ScIdle
    /\ filler_files \in 1..MaxTracks
    /\ FpNone

\* FillerPlayer objects are created, started and stopped in any order
FillerSpec == FillerInit /\ [][FillerCalls \/ FillerThreads]_vars

\* ------------------------------------ conversation history, client.py main
\* reset_conversation(): the history is the system entry alone, no timer
reset_conversation ==
    /\ messages' = <<SystemEntry>>
    /\ conversation_start' = "None"
    /\ deadline_passed' = FALSE
    /\ overdue' = FALSE

\* stt.transcribe returns nothing, or an error without text: `continue`
TranscribeNothing ==
    /\ loopPc = "listen"
    /\ UNCHANGED histVars
    /\ UNCHANGED notHist

\* reason == "silence_timeout": conclude_and_reset("silence") or
\* reset_conversation(); both end in reset_conversation()
TranscribeSilence ==
    /\ loopPc = "listen"
    /\ reset_conversation
    /\ UNCHANGED <<loopPc, utterances, self_messages, llm_calls>>
    /\ UNCHANGED notHist

\* reason == "cancelled": break
TranscribeCancelled ==
    /\ loopPc = "listen"
    /\ loopPc' = "exit"
    /\ UNCHANGED <<messages, conversation_start, deadline_passed, utterances,
                   overdue, self_messages, llm_calls>>
    /\ UNCHANGED notHist

\* an utterance: the timer starts when there is none, the user entry is
\* appended and send_streaming_request is awaited
TranscribeSuccess ==
    /\ loopPc = "listen"
    /\ utterances < MaxUtterances
    /\ utterances' = utterances + 1
    /\ conversation_start' = "set"
    /\ messages' = Append(messages, Entry("user", utterances + 1))
    /\ loopPc' = "request"
    /\ UNCHANGED <<deadline_passed, overdue, self_messages, llm_calls>>
    /\ UNCHANGED notHist

\* the clock reaches conversation_start + CONVERSATION_LENGTH
DeadlinePasses ==
    /\ conversation_start = "set"
    /\ ~deadline_passed
    /\ loopPc # "exit"
    /\ deadline_passed' = TRUE
    /\ UNCHANGED <<messages, conversation_start, loopPc, utterances, overdue,
                   self_messages, llm_calls>>
    /\ UNCHANGED notHist

\* send_streaming_request has returned. A response: the assistant entry is
\* appended, and past the deadline conclude_and_reset("time_limit") ends in
\* reset_conversation(). None: "Failed to get response, trying again..."
RequestReturns(ok) ==
    /\ loopPc = "request"
    /\ loopPc' = "listen"
    /\ IF ok
       THEN IF deadline_passed
            THEN reset_conversation
            ELSE /\ messages' = Append(messages, Entry("assistant", utterances))
                 /\ UNCHANGED <<conversation_start, deadline_passed, overdue>>
       ELSE /\ overdue' = deadline_passed
            /\ UNCHANGED <<messages, conversation_start, deadline_passed>>
    /\ UNCHANGED <<utterances, self_messages, llm_calls>>
    /\ UNCHANGED notHist

ConversationLoop ==
    \/ TranscribeNothing
    \/ TranscribeSilence
    \/ TranscribeCancelled
    \/ TranscribeSuccess
    \/ DeadlinePasses
    \/ \E ok \in BOOLEAN : RequestReturns(ok)

\* the conversation loop of client.py: what it does to the history
HistorySpec == Init /\ [][ConversationLoop]_vars

\* ------------------------- conversation history, CombinedPirateAssistant
\* the last k entries of a list: list[-k:]
LastN(list, k) ==
    IF Len(list) <= k THEN list ELSE SubSeq(list, Len(list) - k + 1, Len(list))

\* get_llm_response: the user entry is appended; the backend call returns
\* and the assistant entry is appended and the list cut to the system
\* entry and the last HISTORY_WINDOW entries, or the call raises and the
\* except clause returns the apology
get_llm_response(ok) ==
    /\ llm_calls < MaxCalls
    /\ llm_calls' = llm_calls + 1
    /\ LET asked == Append(self_messages, Entry("user", llm_calls + 1))
           answered == Append(asked, Entry("assistant", llm_calls + 1))
       IN self_messages' =
             IF ~ok THEN asked
             ELSE IF Len(answered) > HISTORY_WINDOW + 1
                  THEN <<answered[1]>> \o LastN(answered, HISTORY_WINDOW)
                  ELSE answered
    /\ UNCHANGED <<messages, conversation_start, deadline_passed, loopPc,
                   utterances, overdue>>
    /\ UNCHANGED notHist

\* the run loop of combined/main.py: one get_llm_response per utterance
CombinedSpec == Init /\ [][\E ok \in BOOLEAN : get_llm_response(ok)]_vars

\* ---------------------------------------- request IDs (logger_utils.py)
\* the strings a caller may pass as an ID; None is "None"
ReqIds == {"", "27077ed3", "test5678"}

\* Python truth value of an Optional[str]: None and "" are false
Truthy(x) == x \notin {"None", ""}

\* set_request_id(req_id)
set_request_id(req_id) ==
    /\ request_id_context' = req_id
    /\ latest_set' = req_id
    /\ reqCall' = [NoReqCall EXCEPT !.op = "set", !.req_id = req_id]
    /\ UNCHANGED headers
    /\ UNCHANGED notRid

\* clear_request_id()
clear_request_id ==
    /\ request_id_context' = "None"
    /\ latest_set' = "cleared"
    /\ reqCall' = [NoReqCall EXCEPT !.op = "clear"]
    /\ UNCHANGED headers
    /\ UNCHANGED notRid

\* get_request_id(): the value of the context variable
get_request_id == request_id_context

CallGetRequestId ==
    /\ reqCall' = [NoReqCall EXCEPT !.op = "get", !.ret = get_request_id]
    /\ UNCHANGED <<request_id_context, headers, latest_set>>
    /\ UNCHANGED notRid

\* Mutant: the ID in context is preferred to the one given.
add_request_id_header_ContextFirst(h, req_id) ==
    LET request_id == IF Truthy(get_request_id) THEN get_request_id ELSE req_id
    IN IF Truthy(request_id) THEN [h EXCEPT ![REQUEST_ID_HEADER] = request_id] ELSE h

\* add_request_id_header(headers, req_id): `req_id or get_request_id()`,
\* set in the dict when it is true; the dict is returned
add_request_id_header(h, req_id) ==
    LET request_id == IF Truthy(req_id) THEN req_id ELSE get_request_id
    IN IF Truthy(request_id) THEN [h EXCEPT ![REQUEST_ID_HEADER] = request_id] ELSE h

CallAddRequestIdHeader(h, req_id) ==
    /\ headers' = add_request_id_header(h, req_id)
    /\ reqCall' = [NoReqCall EXCEPT !.op = "add", !.req_id = req_id, !.before = h]
    /\ UNCHANGED <<request_id_context, latest_set>>
    /\ UNCHANGED notRid

RequestIds ==
    \/ \E req_id \in ReqIds : set_request_id(req_id)
    \/ clear_request_id
    \/ CallGetRequestId
    \/ \E h \in HeaderDicts, req_id \in ReqIds \cup {"None"} :
           CallAddRequestIdHeader(h, req_id)

\* the functions of logger_utils called in any order, in one context
RequestIdSpec == Init /\ [][RequestIds]_vars

\* ------------------------------------------------- streaming_client.py
\* main: request_task = asyncio.create_task(send_streaming_request(...)),
\* then `await asyncio.sleep(0.3)`
ScCreateTask ==
    /\ sc_main = "listen"
    /\ request_task = "none"
    /\ request_task' = "connect"
    /\ sc_main' = "sleep"
    /\ UNCHANGED <<sc_player, sc_filler, sc_received>>
    /\ UNCHANGED notSc

\* main: the sleep is over; play_filler_phrase runs in the executor, and
\* plays the filler file with subprocess.run when the file exists
ScRunFiller(found) ==
    /\ sc_main = "sleep"
    /\ sc_main' = "filler"
    /\ sc_filler' = IF found THEN "playing" ELSE "done"
    /\ UNCHANGED <<request_task, sc_player, sc_received>>
    /\ UNCHANGED notSc

\* the player process of the filler ends
ScFillerEnd ==
    /\ sc_filler = "playing"
    /\ sc_filler' = "done"
    /\ UNCHANGED <<sc_main, request_task, sc_player, sc_received>>
    /\ UNCHANGED notSc

\* main: run_in_executor has returned; `await request_task`
ScAwaitTask ==
    /\ sc_main = "filler"
    /\ sc_filler = "done"
    /\ sc_main' = "await"
    /\ UNCHANGED <<request_task, sc_player, sc_filler, sc_received>>
    /\ UNCHANGED notSc

\* send_streaming_request: status 200 starts the playback thread; any other
\* status returns None
ScResponse(ok) ==
    /\ request_task = "connect"
    /\ IF ok
       THEN /\ request_task' = "read"
            /\ sc_player' = [sc_player EXCEPT !.stop_event = FALSE, !.thread = "top"]
       ELSE /\ request_task' = "done"
            /\ UNCHANGED sc_player
    /\ UNCHANGED <<sc_main, sc_filler, sc_received>>
    /\ UNCHANGED notSc

\* an audio_chunk event: add_audio_chunk puts the chunk on the queue at
\* once, unless its payload does not decode
ScOnAudioChunk(decodable) ==
    /\ request_task = "read"
    /\ sc_received < MaxLines
    /\ sc_received' = sc_received + 1
    /\ sc_player' = IF decodable
                    THEN [sc_player EXCEPT !.queue = Append(@, sc_received + 1),
                                           !.unfinished = @ + 1]
                    ELSE sc_player
    /\ UNCHANGED <<sc_main, request_task, sc_filler>>
    /\ UNCHANGED notSc

\* a complete event, or the end of the stream: wait_for_completion()
ScOnComplete ==
    /\ request_task = "read"
    /\ request_task' = "wait_completion"
    /\ UNCHANGED <<sc_main, sc_player, sc_filler, sc_received>>
    /\ UNCHANGED notSc

\* an error event: return None
ScOnError ==
    /\ request_task = "read"
    /\ request_task' = "done"
    /\ UNCHANGED <<sc_main, sc_player, sc_filler, sc_received>>
    /\ UNCHANGED notSc

\* an exception while connecting or reading: the except clauses call
\* stop_playback()
ScException ==
    /\ request_task \in {"connect", "read"}
    /\ sc_player' = [sc_player EXCEPT !.stop_event = TRUE]
    /\ request_task' = "stop_join"
    /\ UNCHANGED <<sc_main, sc_filler, sc_received>>
    /\ UNCHANGED notSc

\* audio_queue.join() returns; stop_playback() sets the stop event
ScWaitForCompletion ==
    /\ request_task = "wait_completion"
    /\ sc_player.unfinished = 0
    /\ sc_player' = [sc_player EXCEPT !.stop_event = TRUE]
    /\ request_task' = "stop_join"
    /\ UNCHANGED <<sc_main, sc_filler, sc_received>>
    /\ UNCHANGED notSc

\* stop_playback(): play_thread.join(timeout=2) returns; the call returns
ScStopJoin ==
    /\ request_task = "stop_join"
    /\ sc_player.thread \in {"none", "dead", "playing"}
    /\ request_task' = "done"
    /\ UNCHANGED <<sc_main, sc_player, sc_filler, sc_received>>
    /\ UNCHANGED notSc

\* _playback_worker: `while not self.stop_event.is_set()`
ScWorkerCheckStop ==
    /\ sc_player.thread = "top"
    /\ sc_player' = [sc_player EXCEPT !.thread = IF sc_player.stop_event THEN "dead" ELSE "get"]
    /\ UNCHANGED <<sc_main, request_task, sc_filler, sc_received>>
    /\ UNCHANGED notSc

\* audio_queue.get returns a chunk; the temp file is written and
\* subprocess.run starts the player. launched = FALSE: one of these raises,
\* `except Exception` prints the error and the loop goes on
ScWorkerGet(launched) ==
    /\ sc_player.thread = "get"
    /\ sc_player.queue # <<>>
    /\ sc_player' = [sc_player EXCEPT !.queue = Tail(@),
                                      !.thread = IF launched THEN "playing" ELSE "top"]
    /\ UNCHANGED <<sc_main, request_task, sc_filler, sc_received>>
    /\ UNCHANGED notSc

\* audio_queue.get(timeout=0.5) raises queue.Empty: `continue`
ScWorkerGetEmpty ==
    /\ sc_player.thread = "get"
    /\ sc_player.queue = <<>>
    /\ sc_player' = [sc_player EXCEPT !.thread = "top"]
    /\ UNCHANGED <<sc_main, request_task, sc_filler, sc_received>>
    /\ UNCHANGED notSc

\* the player process ends, with any return code: task_done()
ScWorkerPlayEnd ==
    /\ sc_player.thread = "playing"
    /\ sc_player' = [sc_player EXCEPT !.thread = "top", !.unfinished = @ - 1]
    /\ UNCHANGED <<sc_main, request_task, sc_filler, sc_received>>
    /\ UNCHANGED notSc

ScMain ==
    \/ ScCreateTask
    \/ \E found \in BOOLEAN : ScRunFiller(found)
    \/ ScFillerEnd
    \/ ScAwaitTask

ScRequest ==
    \/ \E ok \in BOOLEAN : ScResponse(ok)
    \/ \E decodable \in BOOLEAN : ScOnAudioChunk(decodable)
    \/ ScOnComplete
    \/ ScOnError
    \/ ScException
    \/ ScWaitForCompletion
    \/ ScStopJoin

ScWorker ==
    \/ ScWorkerCheckStop
    \/ \E launched \in BOOLEAN : ScWorkerGet(launched)
    \/ ScWorkerGetEmpty
    \/ ScWorkerPlayEnd

\* one turn of streaming_client.py: main, the request task and the threads
StreamingClientSpec == Init /\ [][ScMain \/ ScRequest \/ ScWorker]_vars

\* ------------------------------------------------------------------ claims
FillerWriting(t) == filler[t].proc = "running"
ChunkWriting(t) == player[t].thread = "playing"
Marks(m) == {i \in 1..Len(hist) : hist[i] = m}
Adds == Marks("enq") \cup Marks("drop")

\* C1: within one turn that has a filler player, while the filler is still
\* playing no chunk of the turn is being played and none has been put on
\* the playback queue, however early the first audio_chunk arrived.
C1_FillerEndsBeforeChunks ==
    \A t \in Turns :
        (filler[t].exists /\ (is_filler_playing(t) \/ FillerWriting(t))) =>
            /\ ~ChunkWriting(t)
            /\ player[t].queue = <<>>
            /\ lastPut[t] = 0
            /\ lastGot[t] = NoGot

\* a chunk that arrived while the filler was playing is now being played
C1_Witness ==
    /\ turn >= 1
    /\ filler[turn].exists
    /\ filler[turn].proc = "exited"
    /\ Marks("early") # {}
    /\ ChunkWriting(turn)

\* C2: at every instant at most one writer plays to the sink: the ambient
\* loop, a filler worker or a chunk playback worker of any turn.
Writers ==
    {<<"ambient", 0>> : x \in {a \in {ambient} : a = "playing"}}
      \cup {<<"filler", t>> : t \in {u \in Turns : FillerWriting(u)}}
      \cup {<<"chunk", t>> : t \in {u \in Turns : ChunkWriting(u)}}

C2_AtMostOneWriter == Cardinality(Writers) <= 1

\* C3: the worker takes the chunks in arrival order, the oldest queued one
\* each time whatever its chunk_id, never one it took before, and only
\* when it is not inside the playback of another chunk.
C3_FifoOneAtATime ==
    [][\A t \in Turns :
          (lastGot'[t] # lastGot[t] /\ lastGot'[t] # NoGot) =>
              /\ ~ChunkWriting(t)
              /\ lastGot'[t].n > lastGot[t].n
              /\ lastGot'[t].n <= lastPut[t]
              /\ \A i \in 1..Len(player[t].queue) :
                    player[t].queue[i].n >= lastGot'[t].n
              /\ \A i \in 1..Len(player'[t].queue) :
                    player'[t].queue[i].n > lastGot'[t].n]_vars

\* the second chunk, chunk_id 2, is played while a later chunk with
\* chunk_id 1 waits in the queue
C3_Witness ==
    \E t \in Turns :
        /\ ChunkWriting(t)
        /\ lastGot[t].n = 2
        /\ lastGot[t].id = 2
        /\ player[t].queue # <<>>
        /\ Head(player[t].queue).id = 1

\* C4: no filler is ever told to stop: stop_event stays clear and no filler
\* player process is terminated; a filler worker ends only after its
\* process has ended by itself (or was never launched).
C4_FillerNeverInterrupted ==
    \A t \in Turns :
        /\ ~filler[t].stop_event
        /\ filler[t].proc # "terminated"
        /\ filler[t].thread = "dead" => filler[t].proc \in {"none", "exited"}

\* an except branch goes on after the filler has played to its end
C4_Witness ==
    /\ pc = "stop_set"
    /\ exc = "timeout"
    /\ filler[turn].exists
    /\ filler[turn].proc = "exited"

\* C5: with a filler player, every add_audio_chunk call of the turn comes
\* after one pause that came after the filler was seen not playing; there
\* is one pause in such a turn and none before a second or later chunk.
C5_OnePauseAfterFiller ==
    /\ Cardinality(Marks("pause")) <= 1
    /\ Cardinality(Marks("obs")) <= 1
    /\ (turn >= 1 /\ Marks("obs") # {}) => ~is_filler_playing(turn)
    /\ (turn >= 1 /\ filler[turn].exists /\ Adds # {}) =>
          \E i \in Marks("obs") : \E j \in Marks("pause") :
              /\ i < j
              /\ \A k \in Adds : j < k
    /\ (turn >= 1 /\ ~filler[turn].exists) => Marks("pause") = {}

\* the first chunk came early, was held, and a second one followed it
C5_Witness ==
    /\ Marks("early") # {}
    /\ Marks("pause") # {}
    /\ Cardinality(Marks("enq")) >= 2

\* C6: when wait_for_completion() has returned, the queue is empty, the
\* worker is not inside a playback and the chunk put last is the chunk
\* the worker took last.
C6_JoinMeansAllPlayed ==
    (pc = "stop_set" /\ exc = "none") =>
        /\ player[turn].queue = <<>>
        /\ ~ChunkWriting(turn)
        /\ player[turn].unfinished = 0
        /\ lastGot[turn].n = lastPut[turn]

\* it returned after two chunks were played
C6_Witness ==
    /\ pc = "stop_set"
    /\ exc = "none"
    /\ player[turn].chunks_played >= 2

\* C7: after send_streaming_request has returned, the filler of the turn
\* is not playing, its worker plays nothing, nothing is queued, and a
\* worker that is still alive has been signalled to stop.
C7_NothingLeftOnReturn ==
    (pc = "main" /\ turn >= 1) =>
        /\ ~is_filler_playing(turn)
        /\ ~FillerWriting(turn)
        /\ ~ChunkWriting(turn)
        /\ player[turn].queue = <<>>
        /\ ThreadAlive(player[turn]) => player[turn].stop_event

\* C8: a chunk_error leaves the turn reading the stream, with the queue,
\* the worker and the pending outcome as they were; a turn that has seen
\* complete returns a result, after every chunk put on the queue was taken
\* by the worker.
C8_ChunkErrorNotFatal ==
    /\ [][hist' = Append(hist, "cerr") =>
            /\ pc = "read"
            /\ pc' = "read"
            /\ UNCHANGED <<player, lastPut, lastGot, exc, response_data,
                           received_chunks, complete_seen>>]_vars
    /\ []((complete_seen /\ pc \in {"stop_set", "stop_join"}) =>
            /\ exc = "none"
            /\ player[turn].queue = <<>>
            /\ lastGot[turn].n = lastPut[turn])
    /\ [][(complete_seen /\ pc' = "main") => response_data'.kind = "dict"]_vars

\* complete arrived after audio_chunk, chunk_error, audio_chunk and both
\* chunks were played
C8_Witness ==
    /\ pc = "stop_join"
    /\ complete_seen
    /\ player[turn].chunks_played = 2
    /\ \E i \in Marks("enq") : \E j \in Marks("cerr") : \E k \in Marks("enq") :
          i < j /\ j < k

\* C9: with the worker running, wait_for_completion() returns in the end,
\* whatever mix of chunks plays, fails in the player or fails before it.
C9_WaitReturns == (pc = "wait_completion") ~> (pc = "stop_set")

\* it returned after one chunk played and another failed
C9_Witness ==
    /\ pc = "stop_set"
    /\ exc = "none"
    /\ Cardinality(Marks("enq")) = 2
    /\ player[turn].chunks_played = 1

\* C10: the put of add_audio_chunk never has to wait for room, and a call
\* whose payload does not decode changes neither the queue nor the worker,
\* raises nothing and leaves the line loop reading.
C10_AddNeverBlocksDropIsLocal ==
    /\ [](turn >= 1 => put_ready(player[turn].queue))
    /\ [][hist' = Append(hist, "drop") =>
            /\ pc' = "read"
            /\ UNCHANGED <<player, lastPut, lastGot, exc, response_data>>]_vars

\* a chunk queued after a dropped one has been played
C10_Witness ==
    /\ turn >= 1
    /\ \E i \in Marks("drop") : \E j \in Marks("enq") : i < j
    /\ lastGot[turn].n >= 2
    /\ lastGot[turn].n = lastPut[turn]
    /\ player[turn].chunks_played >= 1


\* C11: once stop_playback() has set stop_event, the worker is not cut off
\* inside a chunk (it leaves a playback only when the player process has
\* ended, with task_done), begins no further chunk, and ends at its next
\* loop test; stop_playback() returns although the worker is still inside
\* a chunk when the join times out.
C11_StopAfterCurrentChunk ==
    [][\A t \in Turns :
          (player[t].stop_event /\ player'[t].stop_event) =>
              /\ (ChunkWriting(t) /\ ~ChunkWriting(t)') =>
                     player'[t].unfinished = player[t].unfinished - 1
              /\ ~ChunkWriting(t) => ~ChunkWriting(t)'
              /\ (player[t].thread = "top") => player'[t].thread \in {"top", "dead"}]_vars

\* C12: the chunk_id values of the emitted audio_chunk and chunk_error
\* events are 1, 2, 3, ... in emission order, each equal to the place of its
\* sentence in segmentation order, whatever the order in which the
\* syntheses completed; a sentence that completed before an earlier one is
\* not emitted before it.
C12_ChunkIdsInSegmentationOrder ==
    /\ \A i \in 1..Len(ChunkEvents) :
          /\ ChunkEvents[i].chunk_id = i
          /\ ChunkEvents[i].sentence = i
    /\ \A k \in 1..Len(synth) :
          (\E j \in 1..(k - 1) : synth[j] = "running") =>
              \A i \in 1..Len(ChunkEvents) : ChunkEvents[i].sentence # k

\* sentence 2 completed first, then failed sentence 1; both are emitted
C12_Witness ==
    /\ Len(doneOrder) >= 2
    /\ doneOrder[1] = 2
    /\ Len(ChunkEvents) >= 2
    /\ ChunkEvents[1].type = "chunk_error"
    /\ ChunkEvents[2].type = "audio_chunk"

\* C13: a stream has at most one terminal event and nothing follows it; a
\* stream that has ended has exactly one, complete when the backend reply
\* ended (also when every sentence got a chunk_error) and error only when
\* the backend call failed; every stream that was begun ends.
Terminals == {i \in 1..Len(events) : IsTerminal(events[i])}

C13_StreamEnded ==
    /\ Cardinality(Terminals) <= 1
    /\ Terminals \subseteq {Len(events)}
    /\ (seqState \in {"Complete", "Failed"}) = (Terminals # {})
    /\ seqState = "Complete" =>
          /\ events[Len(events)].type = "complete"
          /\ backend = "ended"
          /\ Len(ChunkEvents) = Len(synth)
    /\ seqState = "Failed" =>
          /\ events[Len(events)].type = "error"
          /\ backend = "failed"

C13_OneTerminalEvent ==
    /\ []C13_StreamEnded
    /\ [][Terminals # {} => events' = events]_vars
    /\ (seqState = "AwaitingText") ~> (seqState \in {"Complete", "Failed"})

\* complete came after nothing but chunk_error events
C13_Witness ==
    /\ seqState = "Complete"
    /\ Len(ChunkEvents) >= 2
    /\ \A i \in 1..Len(ChunkEvents) : ChunkEvents[i].type = "chunk_error"

\* C14: for the buffer of every call of segment, the complete_sentences
\* one after the other, followed by the remainder, are the buffer again.
C14_SegmentRoundTrip ==
    Concat(segCall.complete_sentences) \o segCall.remainder = segCall.buffer

\* a buffer with two sentences, the whitespace after each punctuation run
\* included, and a remainder
C14_Witness ==
    /\ Len(segCall.complete_sentences) = 2
    /\ segCall.remainder # <<>>
    /\ \E i \in 1..Len(segCall.buffer) : IsSpace(segCall.buffer[i])

\* C15: when the text has arrived in pieces and the remainder has been
\* flushed, the sentences are those of one call of segment on the whole
\* text followed by its flushed remainder; at most one flush produces a
\* sentence, and nothing is left in the buffer.
C15_IncrementalEqualsWhole ==
    /\ flushes <= 1
    /\ segPc = "done" =>
          /\ sentences = segment(reply).complete_sentences
                            \o Flushed(segment(reply).remainder)
          /\ buffer = <<>>

\* a text cut inside a sentence boundary: the carried remainder ends with
\* the punctuation and the whitespace comes with the next piece
C15_Witness ==
    /\ segPc = "done"
    /\ Len(sentences) >= 2
    /\ flushes = 1
    /\ segCall.carried >= 1
    /\ IsPunct(segCall.buffer[segCall.carried])
    /\ IsSpace(segCall.buffer[segCall.carried + 1])

\* C16: when generate_sentence_audio has ended, it has called the primary
\* provider once; if that succeeded the result is the primary's audio and
\* the fallback was not called; if it raised, the fallback was called once
\* and the result is its audio; the call raises only when both failed.
C16_FallbackOnceOnPrimaryFailure ==
    apiPc \in {"respond", "done"} /\ tts.primary_calls > 0 =>
        /\ tts.primary_calls = 1
        /\ apiIn.primary = "ok" => tts.outcome = "primary" /\ tts.fallback_calls = 0
        /\ apiIn.primary = "raise" =>
              /\ tts.fallback_calls = 1
              /\ apiIn.fallback_audio # "" => tts.outcome = "fallback"
        /\ (tts.outcome = "raise") = (apiIn.primary = "raise" /\ apiIn.fallback_audio = "")

\* the primary raised and the fallback audio was returned
C16_Witness ==
    /\ apiPc = "respond"
    /\ apiIn.primary = "raise"
    /\ tts.fallback_calls = 1
    /\ tts.outcome = "fallback"

\* C17: whenever chat_api obtained a reply text that is not blank, the
\* response has status 200 and the reply text; it has the audio of the
\* provider that succeeded and no error, or, when both failed, no audio
\* and an error note.
C17_TtsFailureKeepsText ==
    (apiPc = "done" /\ response_text = "text") =>
        /\ apiResp.status = 200
        /\ apiResp.response = "text"
        /\ tts.outcome \in {"primary", "fallback"} =>
              apiResp.audio_base64 = tts.outcome /\ apiResp.error = "none"
        /\ tts.outcome = "raise" =>
              apiResp.audio_base64 = "none" /\ apiResp.error # "none"

\* both providers failed and the text went out alone
C17_Witness ==
    /\ apiPc = "done"
    /\ response_text = "text"
    /\ tts.outcome = "raise"
    /\ apiResp.status = 200

\* C18: every failure of the backend call gives a response without reply
\* text and audio: 504 for a timeout, 503 for a connection failure, the
\* backend's status for a non-200 reply, 500 for a malformed body, missing
\* choices/message/content and blank content.
C18_BackendFailureStatus ==
    (apiPc = "done" /\ apiIn.req = "ok" /\ apiIn.llm.kind # "ok") =>
        /\ apiResp.response = "none"
        /\ apiResp.audio_base64 = "none"
        /\ apiResp.error # "none"
        /\ apiResp.status =
              CASE apiIn.llm.kind = "timeout" -> 504
                [] apiIn.llm.kind = "connection" -> 503
                [] apiIn.llm.kind = "status" -> apiIn.llm.status
                [] OTHER -> 500

\* C19: of two fillers played one after the other, in one request or in
\* two consecutive ones, the second is another track than the first when
\* the filler directory holds more than one track.
C19_NoImmediateRepeat ==
    (filler_files > 1 /\ tracks.prev # 0) => tracks.cur # tracks.prev

\* C20: a start_filler() call on a player marked playing returns False and
\* starts no worker; any other returns True with exactly one new worker,
\* which has not begun to play when the call returns; after a
\* stop_filler() that has returned the player is not marked playing, so
\* the next start_filler() returns True.
C20_StartFillerContract ==
    /\ [][CallStartFiller =>
            IF fp.is_playing
            THEN caller'.ret = "False" /\ workers' = workers
            ELSE /\ caller'.ret = "True"
                 /\ Cardinality(Started') = Cardinality(Started) + 1
                 /\ \A w \in 1..MaxStarts :
                       workers'[w] # workers[w] =>
                           /\ workers[w].state = "none"
                           /\ workers'[w].state = "select"
                           /\ workers'[w].proc = "none"]_vars
    /\ [][(CallStartFiller /\ caller.last = "stop") => caller'.ret = "True"]_vars
    /\ []((caller.pc = "idle" /\ caller.last = "stop") => ~fp.is_playing)

\* the third start of one player, after two stops, with the worker of the
\* stop before still alive
C20_Witness ==
    /\ caller.last = "start"
    /\ caller.ret = "True"
    /\ fp.play_thread = 3
    /\ Alive(2)
    /\ workers[1].proc = "terminated"

\* C21: when a turn is cancelled inside send_streaming_request, the
\* playback worker of the turn is signalled to stop and a filler that is
\* still playing is interrupted before the turn is left.
C21_CancelStopsAudio ==
    [][Cancelled =>
          /\ ThreadAlive(player[turn]) => player'[turn].stop_event
          /\ FillerBusy(turn) => filler'[turn].stop_event]_vars

\* C24: the result of a successful turn reports as its chunk count the
\* number of chunks the playback worker of the turn played to completion,
\* and never more than the chunks_total it reports.
C24_ReportedChunksWerePlayed ==
    [][(pc # "main" /\ pc' = "main" /\ response_data'.kind = "dict") =>
          /\ response_data'.chunks_received = player[turn].chunks_played
          /\ response_data'.chunks_received <= response_data'.total_chunks]_vars

\* a history starts with the system entry, and after it user and assistant
\* entries alternate, a user entry first
Alternates(list) ==
    /\ list # <<>>
    /\ list[1].role = "system"
    /\ \A i \in 2..Len(list) :
          list[i].role = IF i % 2 = 0 THEN "user" ELSE "assistant"

\* C22: after any sequence of successful and failed turns the history
\* starts with the single system entry, and after it user and assistant
\* entries strictly alternate.
C22_HistoryAlternates == Alternates(messages)

\* C23: after every call of get_llm_response, whether the backend call
\* succeeded or raised, self.messages holds at most the system entry plus
\* HISTORY_WINDOW entries, and its first entry is the system entry.
C23_HistoryBounded ==
    /\ Len(self_messages) <= HISTORY_WINDOW + 1
    /\ self_messages[1] = SystemEntry

\* C29: a turn that ends past the conversation deadline, successful or
\* not, ends with the history reset to the system entry alone, and no
\* user entry is appended to the history of a conversation one of whose
\* turns has ended past the deadline.
C29_DeadlineResetsHistory ==
    /\ [][(loopPc = "request" /\ loopPc' = "listen" /\ deadline_passed) =>
             /\ messages' = <<SystemEntry>>
             /\ conversation_start' = "None"]_vars
    /\ [][(TranscribeSuccess /\ overdue) => Len(messages') = 2]_vars

\* C25: get_request_id() returns what the latest set_request_id() set, and
\* None after clear_request_id(); add_request_id_header puts the given ID
\* into the request-ID header, else the ID in context, adds nothing when
\* there is neither, and leaves every other header as it was. An ID is a
\* string that is not empty.
C25_RequestIdPropagation ==
    /\ reqCall.op = "get" =>
          reqCall.ret = IF latest_set \in {"never", "cleared"} THEN "None" ELSE latest_set
    /\ reqCall.op = "add" =>
          LET ctx == IF latest_set \in {"never", "cleared", ""} THEN "None" ELSE latest_set
              id == IF reqCall.req_id \notin {"None", ""} THEN reqCall.req_id ELSE ctx
          IN /\ \A k \in HeaderNames \ {REQUEST_ID_HEADER} : headers[k] = reqCall.before[k]
             /\ headers[REQUEST_ID_HEADER] =
                   IF id = "None" THEN reqCall.before[REQUEST_ID_HEADER] ELSE id

\* the ID in context is put beside a header that was there, and an ID is
\* given although another one is in context
C25_Witness ==
    /\ reqCall.op = "add"
    /\ reqCall.req_id = "test5678"
    /\ latest_set = "27077ed3"
    /\ reqCall.before["Content-Type"] = "v"
    /\ headers[REQUEST_ID_HEADER] = "test5678"

\* FillerPlayer.is_filler_playing()
FillerPlayer_is_filler_playing ==
    fp.is_playing /\ fp.play_thread # 0 /\ Alive(fp.play_thread)

\* C26: at most one worker thread of a FillerPlayer is alive at any time,
\* and while is_filler_playing() is false no player process it started is
\* running.
C26_OneFillerWorker ==
    /\ Cardinality({w \in 1..MaxStarts : Alive(w)}) <= 1
    /\ ~FillerPlayer_is_filler_playing =>
          \A w \in 1..MaxStarts : workers[w].proc # "running"

\* C27: from the return of a start_playback() call up to the next
\* stop_playback(), the one worker thread of the player is alive and has
\* not been signalled to stop, also after a stop_playback() whose join has
\* timed out.
C27_StartedWorkerNotStopped ==
    (pc \in {"api", "api_join"} /\ hist = <<"started">>) =>
        /\ ThreadAlive(player[1])
        /\ ~player[1].stop_event

\* C28: in streaming_client.py every chunk the worker has taken from the
\* queue is matched by one task_done(), also when writing the temp file or
\* starting the audio player raises.
C28_DequeuedChunkIsDone ==
    [][(Len(sc_player'.queue) < Len(sc_player.queue) /\ sc_player'.thread # "playing")
          => sc_player'.unfinished = sc_player.unfinished - 1]_vars

====
